---- MODULE Spec2Model ----
(***************************************************************************)
(* A state-machine model of the normalizing expression factory of         *)
(* pkg/sql/opt/norm/factory.go: the Factory's callbacks and recursion     *)
(* counter, the memos it builds, the construct / normalize / intern       *)
(* protocol, the finishing hook with the zero-cardinality rule, and the   *)
(* copy-and-replace traversal between memos.                               *)
(*                                                                         *)
(* Every public method of the Factory is one action that runs the whole   *)
(* call.  DisableOptimizationsTemporarily(fn) runs arbitrary client code  *)
(* fn, so it is an enter step and a return step with a frame in between.  *)
(***************************************************************************)
EXTENDS Integers, Sequences, FiniteSets, TLC

(***************************************************************************)
(* Bounds of the model.                                                    *)
(***************************************************************************)
\* A top-level construction is accepted while the memo holds fewer
\* expressions than this.
MaxExprs == 2
\* A call that takes a unique id or a scalar rank of its own, and a copy out
\* of a memo, is accepted while the counter it starts from is below this.
MaxCounter == 1
\* A memo is the source of a placeholder assignment while its scalar rank
\* counter is at most this.
MaxRank == 4
\* The values of a constant filter.
MaxValues == 2
\* Nested DisableOptimizationsTemporarily calls in progress.
MaxNesting == 2
\* factory.go:113 sets 10_000; the model scales the threshold down.
maxConstructorStackDepth == 3

VARIABLES
    f,              \* the Factory struct (factory.go:68-103)
    mems,           \* the memos allocated so far: memo id -> memo
    frames,         \* DisableOptimizationsTemporarily calls in progress
    fatal,          \* the panic that unwound out of the last call, or "none"
    CrdbTestBuild,  \* buildutil.CrdbTestBuild
    last            \* observation of the last call: arguments and callbacks

vars == <<f, mems, frames, fatal, CrdbTestBuild, last>>

(***************************************************************************)
(* Callbacks.  A MatchedRuleFunc is named by its identity; CallMatched is  *)
(* what invoking it returns.                                               *)
(***************************************************************************)
Nil == "nil"
NoPanic == "none"
\* The closure DisableOptimizations installs (factory.go:173).
RejectAll == "rejectAll"
\* Callbacks a client installs: one that allows every rule, one that
\* rejects the zero-cardinality rule and the rule B => A.
ClientMatchedRuleFuncs == {"cbAllow", "cbDeny"}
AppliedRuleFuncs == {"cbApplied"}

SimplifyZeroCardinalityGroup == "SimplifyZeroCardinalityGroup"

MatchedRuleFunc(cb, ruleName) ==
    CASE cb = RejectAll -> FALSE
      [] cb = "cbAllow" -> TRUE
      [] cb = "cbDeny" -> ruleName \notin {SimplifyZeroCardinalityGroup, "BtoA"}

(***************************************************************************)
(* Expressions and memos.                                                  *)
(***************************************************************************)
\* The process-wide boolean singletons are referenced, never interned.
\* Datums, written as their literals; tree.DNull; the types that occur.
DNull == "NULL"
DBools == {"true", "false"}
DInts == {"5", "7"}
Datums == {DNull} \cup DBools \cup DInts
Types == {"int", "bool", "unknown"}

\* Datum.ResolvedType().
ResolvedType(d) ==
    IF d = DNull THEN "unknown" ELSE IF d \in DBools THEN "bool" ELSE "int"

\* The evaluation contexts: what evaluating the value of the placeholders
\* $1 (of type int) and $2 (of type bool) gives, a datum or an error.
EvalError == "eval error"
EvalCtxs ==
    {<<"5", "true">>, <<DNull, "false">>, <<"7", DNull>>,
     <<EvalError, "true">>, <<"5", EvalError>>}
DefaultEvalCtx == <<"5", "true">>
PlaceholderType(idx) == IF idx = 1 THEN "int" ELSE "bool"

\* eval.Expr(ctx, evalCtx, placeholder.Value): the datum and the error.
EvalExpr(evalCtx, idx) ==
    IF evalCtx[idx] = EvalError
    THEN [d |-> DNull, err |-> EvalError]
    ELSE [d |-> evalCtx[idx], err |-> Nil]

\* The catalogs.
Catalogs == {"cat1", "cat2"}
DefaultCatalog == "cat1"

TrueSingleton == 0 - 1
FalseSingleton == 0 - 2
IsSingleton(ref) == ref < 0

\* The join operators that ConstructJoin dispatches on (factory.go:415-434).
JoinOps ==
    {"InnerJoin", "InnerJoinApply", "LeftJoin", "LeftJoinApply", "RightJoin",
     "FullJoin", "SemiJoin", "SemiJoinApply", "AntiJoin", "AntiJoinApply"}

RelationalOps == {"Scan", "Values", "Select", "Limit", "A", "B"} \cup JoinOps
ScalarOps ==
    {"Const", "Null", "Placeholder", "Variable", "Eq", "In", "Tuple", "FiltersItem"}

NoPrivate == [tag |-> "", cols |-> {}, id |-> 0]

Expr(op, kids, priv) == [op |-> op, kids |-> kids, priv |-> priv]

\* computed: the expression of the computed column of the table, 0 if none.
BlankMetadata == [cols |-> {}, uniqueID |-> 0, computed |-> 0]

\* memo.Memo after Memo.Init.  held: the factory or the client refers to it.
BlankMemo ==
    [exprs |-> <<>>, nextRank |-> 1, md |-> BlankMetadata,
     root |-> 0, rootProps |-> Nil, held |-> TRUE]

\* Storage no one refers to.  The client keeps the memo it detached last,
\* so two memos are in use at any time.
FreeMemo == [BlankMemo EXCEPT !.held = FALSE]
MemoIds == {1, 2, 3}

IsEmpty(m) == Len(m.exprs) = 0 /\ m.root = 0

\* Columns of the one catalog table.
TableCols == {1}

(***************************************************************************)
(* Logical properties of a relational expression, as the external          *)
(* provider derives them when the expression is memoized.                  *)
(***************************************************************************)
ZeroCard == [Min |-> 0, Max |-> 0]

RECURSIVE Relational(_, _)
Relational(m, g) ==
    LET e == m.exprs[g]
        in == Relational(m, e.kids[1])
    IN CASE e.op = "Scan" ->
              [Cardinality |-> [Min |-> 0, Max |-> 2],
               VolatilitySet |-> {}, OutputCols |-> e.priv.cols]
         [] e.op = "Values" ->
              [Cardinality |-> ZeroCard,
               VolatilitySet |-> {}, OutputCols |-> e.priv.cols]
         [] e.op = "Select" ->
              [in EXCEPT !.Cardinality =
                  IF e.kids[2] = FalseSingleton THEN ZeroCard
                  ELSE [Min |-> 0, Max |-> in.Cardinality.Max]]
         [] e.op = "Limit" ->
              [in EXCEPT !.VolatilitySet = @ \cup {"immutable"}]
         [] e.op \in JoinOps ->
              LET right == Relational(m, e.kids[2])
                  l == in.Cardinality.Max
                  r == right.Cardinality.Max
                  l1 == IF l = 0 THEN 1 ELSE l
                  r1 == IF r = 0 THEN 1 ELSE r
                  max == CASE e.op \in {"InnerJoin", "InnerJoinApply"} -> l * r
                           [] e.op \in {"LeftJoin", "LeftJoinApply"} -> l * r1
                           [] e.op = "RightJoin" -> l1 * r
                           [] e.op = "FullJoin" -> (l * r1) + r
                           [] e.op \in {"SemiJoin", "SemiJoinApply"} ->
                                IF r = 0 THEN 0 ELSE l
                           [] OTHER -> l
              IN [Cardinality |-> [Min |-> 0, Max |-> max],
                  VolatilitySet |-> in.VolatilitySet \cup right.VolatilitySet,
                  OutputCols |->
                      IF e.op \in {"SemiJoin", "SemiJoinApply",
                                   "AntiJoin", "AntiJoinApply"}
                      THEN in.OutputCols
                      ELSE in.OutputCols \cup right.OutputCols]
         [] OTHER -> in

\* props.Cardinality.IsZero and props.VolatilitySet.IsLeakproof.
IsZero(c) == c.Min = 0 /\ c.Max = 0
IsLeakproof(vs) == vs \subseteq {"leakproof"}

(***************************************************************************)
(* The state one call threads through the constructors it makes:           *)
(*   mems, dst   the memos and the id of the factory's memo                *)
(*   depth       f.constructorStackDepth                                   *)
(*   mlog, alog  invocations of f.matchedRule and of f.appliedRule         *)
(*   hlog        calls of onConstructRelational                            *)
(*   ilog        expressions handed to the memo for interning, each with    *)
(*               its group and the number of groups before and after       *)
(*   rules       rules applied, each with the depth counter at the time     *)
(*   trace       the steps of a copy: rank and metadata copies, callback    *)
(*               invocations, evaluations, internings, the root's setting  *)
(*   rlog        the returns of the replace callback: the node of the       *)
(*               source and the reference returned for it                  *)
(*   reports     errors sent to the telemetry sink                         *)
(*   calls       invocations of the replace callback                       *)
(*   panic       the panic in flight, or "none"                            *)
(*   err         the error the call returns, or nil                        *)
(*   out         the reference the last constructor returned               *)
(***************************************************************************)
Enter(fr, ms) ==
    [mems |-> ms, dst |-> fr.mem, depth |-> fr.constructorStackDepth,
     mlog |-> <<>>, alog |-> <<>>, hlog |-> <<>>, ilog |-> <<>>,
     rules |-> <<>>, trace |-> <<>>, rlog |-> <<>>, reports |-> 0, calls |-> 0,
     panic |-> NoPanic, err |-> Nil, out |-> 0]

\* One more step of the call, about a reference, an id or an index.
Step(st, ev, ref) == [st EXCEPT !.trace = Append(@, [ev |-> ev, ref |-> ref])]

\* Sequencing: the rest of a body, F, runs on what a statement gave, v.
Bind(v, F(_)) == F(v)

Panic(st, what) == [st EXCEPT !.panic = what]

\* Memo.Metadata().NextUniqueID(): the new id is st.mems[st.dst].md.uniqueID.
NextUniqueID(st) == [st EXCEPT !.mems[st.dst].md.uniqueID = @ + 1]

\* The memo's interning: the group of a structurally equal expression if
\* there is one, a new group otherwise.  A new scalar takes the next rank.
Lookup(exprs, e) ==
    IF \E i \in 1..Len(exprs) : exprs[i] = e
    THEN CHOOSE i \in 1..Len(exprs) : exprs[i] = e
    ELSE 0

\* A memo that never looks an expression up.
MemoizeWithoutLookup(st, e) ==
    LET n == Len(st.mems[st.dst].exprs) + 1
    IN [st EXCEPT !.mems[st.dst].exprs = Append(@, e),
                  !.out = n,
                  !.trace = Append(@, [ev |-> "memoize", ref |-> n]),
                  !.ilog = Append(@, [expr |-> e, group |-> n,
                                      before |-> n - 1, after |-> n])]

Memoize(st, e) ==
    LET m == st.mems[st.dst]
        g == Lookup(m.exprs, e)
        n == Len(m.exprs) + 1
    IN IF g # 0
       THEN [st EXCEPT !.out = g,
                       !.trace = Append(@, [ev |-> "memoize", ref |-> g]),
                       !.ilog = Append(@, [expr |-> e, group |-> g,
                                           before |-> n - 1, after |-> n - 1])]
       ELSE [st EXCEPT !.mems[st.dst].exprs = Append(@, e),
                       !.mems[st.dst].nextRank =
                           IF e.op \in ScalarOps THEN @ + 1 ELSE @,
                       !.out = n,
                       !.trace = Append(@, [ev |-> "memoize", ref |-> n]),
                       !.ilog = Append(@, [expr |-> e, group |-> n,
                                           before |-> n - 1, after |-> n])]

\* A guard that panics whatever the build.
onMaxConstructorStackDepthExceededAlwaysPanics(st, testBuild) ==
    Panic(st, "max depth exceeded")

(***************************************************************************)
(* onMaxConstructorStackDepthExceeded (factory.go:349-358): a panic in a   *)
(* test build, a report otherwise.                                         *)
(***************************************************************************)
onMaxConstructorStackDepthExceeded(st, testBuild) ==
    IF testBuild
    THEN Panic(st, "max depth exceeded")
    ELSE [st EXCEPT !.reports = @ + 1]

(***************************************************************************)
(* The construction protocol of every typed constructor (generated code):  *)
(* count the call, try the rules of the operator unless the depth guard    *)
(* fired, intern the terminal node, run the finishing hook, uncount.       *)
(***************************************************************************)
\* The rewrite rules: A(x) => B(x) and B(x) => A(x), both unconditional.
RuleOf(op) == IF op = "A" THEN "AtoB" ELSE IF op = "B" THEN "BtoA" ELSE Nil
Rewritten(e) == [e EXCEPT !.op = IF @ = "A" THEN "B" ELSE "A"]

\* A query that invokes the callback and ignores its answer.
AskMatchedIgnoringAnswer(fr, st, rule) ==
    IF fr.matchedRule = Nil
    THEN [st |-> st, ok |-> TRUE]
    ELSE [st |-> [st EXCEPT !.mlog = Append(@, [cb |-> fr.matchedRule, rule |-> rule])],
          ok |-> TRUE]

\* if f.matchedRule == nil || f.matchedRule(rule): the state after the query
\* (the callback is invoked only when one is installed) and the answer.
AskMatched(fr, st, rule) ==
    IF fr.matchedRule = Nil
    THEN [st |-> st, ok |-> TRUE]
    ELSE [st |-> [st EXCEPT !.mlog = Append(@, [cb |-> fr.matchedRule, rule |-> rule])],
          ok |-> MatchedRuleFunc(fr.matchedRule, rule)]

\* The rule has matched and was not vetoed: its replacement is constructed.
Apply(st, rule) == [st EXCEPT !.rules = Append(@, [rule |-> rule, depth |-> st.depth])]

\* if f.appliedRule != nil { f.appliedRule(rule, nil, target) }
NotifyApplied(fr, st, rule, target) ==
    IF fr.appliedRule = Nil
    THEN st
    ELSE [st EXCEPT !.alog = Append(@, [cb |-> fr.appliedRule, rule |-> rule,
                                        source |-> Nil, target |-> target])]

RECURSIVE ConstructRelational(_, _, _, _)

\* CustomFuncs.ConstructEmptyValues(cols): a Values operator with no rows
\* and the given columns, built like ConstructZeroValues.
ConstructEmptyValues(fr, st, tb, cols) ==
    LET s1 == NextUniqueID(st)
    IN ConstructRelational(fr, s1, tb,
           Expr("Values", <<>>,
                [tag |-> "", cols |-> cols, id |-> s1.mems[s1.dst].md.uniqueID]))

\* A hook that forgets the leakproof test.
onConstructRelationalIgnoringLeakproof(fr, st, tb, rel) ==
    LET m == st.mems[st.dst]
        relational == Relational(m, rel)
        entry == [op |-> m.exprs[rel].op, in |-> rel,
                  zero |-> IsZero(relational.Cardinality),
                  leakproof |-> IsLeakproof(relational.VolatilitySet),
                  cols |-> relational.OutputCols,
                  veto |-> fr.matchedRule, notify |-> fr.appliedRule,
                  matched |-> <<>>, applied |-> <<>>, out |-> rel]
    IN IF m.exprs[rel].op # "Values"
          /\ IsZero(relational.Cardinality)
       THEN LET q == AskMatched(fr, st, SimplifyZeroCardinalityGroup)
                asked == SubSeq(q.st.mlog, Len(st.mlog) + 1, Len(q.st.mlog))
            IN IF q.ok
               THEN LET s1 == ConstructEmptyValues(
                                  fr, Apply(q.st, SimplifyZeroCardinalityGroup),
                                  tb, relational.OutputCols)
                        values == s1.out
                        s2 == NotifyApplied(fr, s1, SimplifyZeroCardinalityGroup, values)
                        told == SubSeq(s2.alog, Len(s1.alog) + 1, Len(s2.alog))
                    IN IF s1.panic # NoPanic THEN s1
                       ELSE [s2 EXCEPT !.out = values,
                                       !.hlog = Append(@, [entry EXCEPT
                                                   !.matched = asked,
                                                   !.applied = told,
                                                   !.out = values])]
               ELSE [q.st EXCEPT !.out = rel,
                                 !.hlog = Append(@, [entry EXCEPT !.matched = asked])]
       ELSE [st EXCEPT !.out = rel, !.hlog = Append(@, entry)]

\* A hook that excludes a Values node only inside another construction.
onConstructRelationalOnTopLevelValues(fr, st, tb, rel) ==
    Bind(Relational(st.mems[st.dst], rel), LAMBDA relational :
    Bind([op |-> st.mems[st.dst].exprs[rel].op, in |-> rel,
          zero |-> IsZero(relational.Cardinality),
          leakproof |-> IsLeakproof(relational.VolatilitySet),
          cols |-> relational.OutputCols,
          veto |-> fr.matchedRule, notify |-> fr.appliedRule,
          matched |-> <<>>, applied |-> <<>>, out |-> rel], LAMBDA entry :
    IF (st.mems[st.dst].exprs[rel].op # "Values" \/ st.depth = 1)
       /\ IsZero(relational.Cardinality)
       /\ IsLeakproof(relational.VolatilitySet)
    THEN Bind(AskMatched(fr, st, SimplifyZeroCardinalityGroup), LAMBDA q :
         Bind(SubSeq(q.st.mlog, Len(st.mlog) + 1, Len(q.st.mlog)), LAMBDA asked :
            IF q.ok
            THEN Bind(ConstructEmptyValues(
                          fr, Apply(q.st, SimplifyZeroCardinalityGroup),
                          tb, relational.OutputCols), LAMBDA s1 :
                 Bind(NotifyApplied(fr, s1, SimplifyZeroCardinalityGroup, s1.out),
                      LAMBDA s2 :
                     IF s1.panic # NoPanic THEN s1
                     ELSE [s2 EXCEPT
                             !.out = s1.out,
                             !.hlog = Append(@, [entry EXCEPT
                                 !.matched = asked,
                                 !.applied = SubSeq(s2.alog, Len(s1.alog) + 1,
                                                    Len(s2.alog)),
                                 !.out = s1.out])]))
            ELSE [q.st EXCEPT !.out = rel,
                              !.hlog = Append(@, [entry EXCEPT !.matched = asked])]))
    ELSE [st EXCEPT !.out = rel, !.hlog = Append(@, entry)]))

\* factory.go:363-385.  rel is the group just interned.  Each call is
\* logged with what it read, the callbacks it invoked and what it returned.
onConstructRelational(fr, st, tb, rel) ==
    Bind(Relational(st.mems[st.dst], rel), LAMBDA relational :
    Bind([op |-> st.mems[st.dst].exprs[rel].op, in |-> rel,
          zero |-> IsZero(relational.Cardinality),
          leakproof |-> IsLeakproof(relational.VolatilitySet),
          cols |-> relational.OutputCols,
          veto |-> fr.matchedRule, notify |-> fr.appliedRule,
          matched |-> <<>>, applied |-> <<>>, out |-> rel], LAMBDA entry :
    IF st.mems[st.dst].exprs[rel].op # "Values"
       /\ IsZero(relational.Cardinality)
       /\ IsLeakproof(relational.VolatilitySet)
    THEN Bind(AskMatched(fr, st, SimplifyZeroCardinalityGroup), LAMBDA q :
         Bind(SubSeq(q.st.mlog, Len(st.mlog) + 1, Len(q.st.mlog)), LAMBDA asked :
            IF q.ok
            THEN Bind(ConstructEmptyValues(
                          fr, Apply(q.st, SimplifyZeroCardinalityGroup),
                          tb, relational.OutputCols), LAMBDA s1 :
                 Bind(NotifyApplied(fr, s1, SimplifyZeroCardinalityGroup, s1.out),
                      LAMBDA s2 :
                     IF s1.panic # NoPanic THEN s1
                     ELSE [s2 EXCEPT
                             !.out = s1.out,
                             !.hlog = Append(@, [entry EXCEPT
                                 !.matched = asked,
                                 !.applied = SubSeq(s2.alog, Len(s1.alog) + 1,
                                                    Len(s2.alog)),
                                 !.out = s1.out])]))
            ELSE [q.st EXCEPT !.out = rel,
                              !.hlog = Append(@, [entry EXCEPT !.matched = asked])]))
    ELSE [st EXCEPT !.out = rel, !.hlog = Append(@, entry)]))

\* SKIP_RULES: intern the node, run the finishing hook, uncount the call.
Finish(fr, st, tb, e) ==
    Bind(Memoize(st, e), LAMBDA s1 :
    Bind(onConstructRelational(fr, s1, tb, s1.out), LAMBDA s2 :
        IF s2.panic # NoPanic THEN s2
        ELSE [s2 EXCEPT !.depth = @ - 1]))

ConstructRelational(fr, st, tb, e) ==
    IF st.panic # NoPanic THEN st
    ELSE Bind([st EXCEPT !.depth = @ + 1], LAMBDA s1 :
         IF s1.depth > maxConstructorStackDepth
         THEN Bind(onMaxConstructorStackDepthExceeded(s1, tb), LAMBDA s2 :
                  IF s2.panic # NoPanic THEN s2 ELSE Finish(fr, s2, tb, e))
         ELSE IF RuleOf(e.op) # Nil
         THEN Bind(AskMatched(fr, s1, RuleOf(e.op)), LAMBDA q :
                  IF q.ok
                  THEN Bind(ConstructRelational(
                                fr, Apply(q.st, RuleOf(e.op)), tb, Rewritten(e)),
                            LAMBDA s3 :
                                IF s3.panic # NoPanic THEN s3
                                ELSE [NotifyApplied(fr, s3, RuleOf(e.op), s3.out)
                                         EXCEPT !.depth = @ - 1])
                  ELSE Finish(fr, q.st, tb, e))
         ELSE Finish(fr, s1, tb, e))

\* onConstructScalar (factory.go:390-392).
onConstructScalar(scalar) == scalar

\* A scalar constructor: no rule of the model matches a scalar.
ConstructScalar(fr, st, tb, e) ==
    IF st.panic # NoPanic THEN st
    ELSE Bind([st EXCEPT !.depth = @ + 1], LAMBDA s1 :
         Bind(IF s1.depth > maxConstructorStackDepth
              THEN onMaxConstructorStackDepthExceeded(s1, tb)
              ELSE s1, LAMBDA s2 :
              IF s2.panic # NoPanic THEN s2
              ELSE Bind(Memoize(s2, e), LAMBDA s3 :
                       [s3 EXCEPT !.out = onConstructScalar(s3.out),
                                  !.depth = @ - 1])))

\* factory.go:402-407.
ConstructZeroValues(fr, st, tb) ==
    LET s1 == NextUniqueID(st)
    IN ConstructRelational(fr, s1, tb,
           Expr("Values", <<>>,
                [tag |-> "", cols |-> {}, id |-> s1.mems[s1.dst].md.uniqueID]))

\* The typed constructors of the constant operators (generated).
ConstructNull(fr, st, tb, t) ==
    ConstructScalar(fr, st, tb,
        Expr("Null", <<>>, [tag |-> t, cols |-> {}, id |-> 0]))

ConstructConst(fr, st, tb, d, t) ==
    ConstructScalar(fr, st, tb,
        Expr("Const", <<>>, [tag |-> t, cols |-> {}, id |-> 0, d |-> d]))

\* A canonicalization that tells a boolean by the static type.
ConstructConstValByType(fr, st, tb, d, t) ==
    IF st.panic # NoPanic THEN st
    ELSE IF t = "bool"
    THEN [st EXCEPT !.out = IF d = "true" THEN TrueSingleton ELSE FalseSingleton]
    ELSE IF d = DNull THEN ConstructNull(fr, st, tb, t)
    ELSE ConstructConst(fr, st, tb, d, t)

\* ConstructConstVal (factory.go:444-456).
ConstructConstVal(fr, st, tb, d, t) ==
    IF st.panic # NoPanic THEN st
    ELSE IF d = DNull THEN ConstructNull(fr, st, tb, t)
    ELSE IF d \in DBools
    THEN [st EXCEPT !.out = IF d = "true" THEN TrueSingleton ELSE FalseSingleton]
    ELSE ConstructConst(fr, st, tb, d, t)

\* The typed constructors of the scalar operators of a filter (generated).
ConstructVariable(fr, st, tb, col) ==
    ConstructScalar(fr, st, tb,
        Expr("Variable", <<>>, [tag |-> "var", cols |-> {}, id |-> col]))

ConstructEq(fr, st, tb, left, right) ==
    ConstructScalar(fr, st, tb, Expr("Eq", <<left, right>>, NoPrivate))

ConstructIn(fr, st, tb, left, right) ==
    ConstructScalar(fr, st, tb, Expr("In", <<left, right>>, NoPrivate))

\* types.MakeTuple: the tuple type of the element types.
MakeTuple(elemTypes) == elemTypes

ConstructTuple(fr, st, tb, elems, typ) ==
    ConstructScalar(fr, st, tb,
        Expr("Tuple", elems, [tag |-> "tuple", cols |-> {}, id |-> 0, types |-> typ]))

ConstructFiltersItem(fr, st, tb, condition) ==
    ConstructScalar(fr, st, tb, Expr("FiltersItem", <<condition>>, NoPrivate))

\* The loop of ConstructConstFilter (factory.go:470-474) from index i on.
RECURSIVE ConstElems(_, _, _, _, _, _, _)
ConstElems(fr, st, tb, values, i, elems, elemTypes) ==
    IF i > Len(values) \/ st.panic # NoPanic
    THEN [st |-> st, elems |-> elems, elemTypes |-> elemTypes]
    ELSE Bind(ResolvedType(values[i]), LAMBDA typ :
         Bind(ConstructConstVal(fr, st, tb, values[i], typ), LAMBDA s1 :
             ConstElems(fr, s1, tb, values, i + 1,
                        Append(elems, s1.out), Append(elemTypes, typ))))

\* A filter that gives every element of the tuple the type of the first.
ConstructConstFilterFirstType(fr, st, tb, col, values) ==
    IF Len(values) = 1
    THEN LET v == ConstructVariable(fr, st, tb, col)
             c == ConstructConstVal(fr, v, tb, values[1], ResolvedType(values[1]))
             eq == ConstructEq(fr, c, tb, v.out, c.out)
         IN ConstructFiltersItem(fr, eq, tb, eq.out)
    ELSE LET r == ConstElems(fr, st, tb, values, 1, <<>>, <<>>)
             v == ConstructVariable(fr, r.st, tb, col)
             t == ConstructTuple(fr, v, tb, r.elems,
                      MakeTuple([i \in DOMAIN r.elemTypes |-> r.elemTypes[1]]))
             in == ConstructIn(fr, t, tb, v.out, t.out)
         IN ConstructFiltersItem(fr, in, tb, in.out)

\* ConstructConstFilter (factory.go:461-479).
ConstructConstFilter(fr, st, tb, col, values) ==
    IF Len(values) = 1
    THEN Bind(ConstructVariable(fr, st, tb, col), LAMBDA v :
         Bind(ConstructConstVal(fr, v, tb, values[1], ResolvedType(values[1])),
              LAMBDA c :
         Bind(ConstructEq(fr, c, tb, v.out, c.out), LAMBDA eq :
             ConstructFiltersItem(fr, eq, tb, eq.out))))
    ELSE Bind(ConstElems(fr, st, tb, values, 1, <<>>, <<>>), LAMBDA r :
         Bind(ConstructVariable(fr, r.st, tb, col), LAMBDA v :
         Bind(ConstructTuple(fr, v, tb, r.elems, MakeTuple(r.elemTypes)), LAMBDA t :
         Bind(ConstructIn(fr, t, tb, v.out, t.out), LAMBDA in :
             ConstructFiltersItem(fr, in, tb, in.out)))))

\* A remapping that follows the map for as long as the column is a key.
remapVariableTransitively(fr, st, tb, ref, colMap) ==
    LET col == st.mems[st.dst].exprs[ref].priv.id
        dstCol == IF col \in DOMAIN colMap
                  THEN IF colMap[col] \in DOMAIN colMap
                       THEN colMap[colMap[col]] ELSE colMap[col]
                  ELSE col
    IN IF col \notin DOMAIN colMap
       THEN [st EXCEPT !.out = ref]
       ELSE ConstructVariable(fr, st, tb, dstCol)

\* The VariableExpr case of replace in RemapCols (factory.go:497-504).
remapVariable(fr, st, tb, ref, colMap) ==
    LET col == st.mems[st.dst].exprs[ref].priv.id
    IN IF col \notin DOMAIN colMap
       THEN [st EXCEPT !.out = ref]
       ELSE ConstructVariable(fr, st, tb, colMap[col])

\* replace in RemapCols (factory.go:494-506); f.Replace (generated) calls
\* replace on every child and constructs the operator over the results.
RECURSIVE remapReplace(_, _, _, _, _)
RECURSIVE remapChildren(_, _, _, _, _, _)

remapChildren(fr, st, tb, kids, colMap, acc) ==
    IF kids = <<>> THEN [st |-> st, kids |-> acc]
    ELSE Bind(remapReplace(fr, st, tb, Head(kids), colMap), LAMBDA s1 :
             remapChildren(fr, s1, tb, Tail(kids), colMap, Append(acc, s1.out)))

remapReplace(fr, st, tb, ref, colMap) ==
    IF st.panic # NoPanic THEN st
    ELSE IF IsSingleton(ref) THEN [st EXCEPT !.out = ref]
    ELSE LET e == st.mems[st.dst].exprs[ref]
         IN IF e.op = "Variable"
            THEN remapVariable(fr, st, tb, ref, colMap)
            ELSE Bind(remapChildren(fr, st, tb, e.kids, colMap, <<>>), LAMBDA r :
                     ConstructScalar(fr, r.st, tb, Expr(e.op, r.kids, e.priv)))

\* RemapCols (factory.go:491-509).
RemapCols(fr, st, tb, scalar, colMap) == remapReplace(fr, st, tb, scalar, colMap)

\* The typed constructors of the join operators (generated).
ConstructInnerJoin(fr, st, tb, left, right, on, private) ==
    ConstructRelational(fr, st, tb, Expr("InnerJoin", <<left, right, on>>, private))
ConstructInnerJoinApply(fr, st, tb, left, right, on, private) ==
    ConstructRelational(fr, st, tb, Expr("InnerJoinApply", <<left, right, on>>, private))
ConstructLeftJoin(fr, st, tb, left, right, on, private) ==
    ConstructRelational(fr, st, tb, Expr("LeftJoin", <<left, right, on>>, private))
ConstructLeftJoinApply(fr, st, tb, left, right, on, private) ==
    ConstructRelational(fr, st, tb, Expr("LeftJoinApply", <<left, right, on>>, private))
ConstructRightJoin(fr, st, tb, left, right, on, private) ==
    ConstructRelational(fr, st, tb, Expr("RightJoin", <<left, right, on>>, private))
ConstructFullJoin(fr, st, tb, left, right, on, private) ==
    ConstructRelational(fr, st, tb, Expr("FullJoin", <<left, right, on>>, private))
ConstructSemiJoin(fr, st, tb, left, right, on, private) ==
    ConstructRelational(fr, st, tb, Expr("SemiJoin", <<left, right, on>>, private))
ConstructSemiJoinApply(fr, st, tb, left, right, on, private) ==
    ConstructRelational(fr, st, tb, Expr("SemiJoinApply", <<left, right, on>>, private))
ConstructAntiJoin(fr, st, tb, left, right, on, private) ==
    ConstructRelational(fr, st, tb, Expr("AntiJoin", <<left, right, on>>, private))
ConstructAntiJoinApply(fr, st, tb, left, right, on, private) ==
    ConstructRelational(fr, st, tb, Expr("AntiJoinApply", <<left, right, on>>, private))

\* A dispatch whose RightJoin case calls the constructor of the case above it.
ConstructJoinSlips(fr, st, tb, joinOp, left, right, on, private) ==
    CASE joinOp = "InnerJoin" -> ConstructInnerJoin(fr, st, tb, left, right, on, private)
      [] joinOp = "InnerJoinApply" ->
           ConstructInnerJoinApply(fr, st, tb, left, right, on, private)
      [] joinOp = "LeftJoin" -> ConstructLeftJoin(fr, st, tb, left, right, on, private)
      [] joinOp = "LeftJoinApply" ->
           ConstructLeftJoinApply(fr, st, tb, left, right, on, private)
      [] joinOp = "RightJoin" ->
           ConstructLeftJoinApply(fr, st, tb, left, right, on, private)
      [] joinOp = "FullJoin" -> ConstructFullJoin(fr, st, tb, left, right, on, private)
      [] joinOp = "SemiJoin" -> ConstructSemiJoin(fr, st, tb, left, right, on, private)
      [] joinOp = "SemiJoinApply" ->
           ConstructSemiJoinApply(fr, st, tb, left, right, on, private)
      [] joinOp = "AntiJoin" -> ConstructAntiJoin(fr, st, tb, left, right, on, private)
      [] joinOp = "AntiJoinApply" ->
           ConstructAntiJoinApply(fr, st, tb, left, right, on, private)
      [] OTHER -> Panic(st, "unexpected join operator")

\* ConstructJoin (factory.go:411-437).
ConstructJoin(fr, st, tb, joinOp, left, right, on, private) ==
    CASE joinOp = "InnerJoin" -> ConstructInnerJoin(fr, st, tb, left, right, on, private)
      [] joinOp = "InnerJoinApply" ->
           ConstructInnerJoinApply(fr, st, tb, left, right, on, private)
      [] joinOp = "LeftJoin" -> ConstructLeftJoin(fr, st, tb, left, right, on, private)
      [] joinOp = "LeftJoinApply" ->
           ConstructLeftJoinApply(fr, st, tb, left, right, on, private)
      [] joinOp = "RightJoin" -> ConstructRightJoin(fr, st, tb, left, right, on, private)
      [] joinOp = "FullJoin" -> ConstructFullJoin(fr, st, tb, left, right, on, private)
      [] joinOp = "SemiJoin" -> ConstructSemiJoin(fr, st, tb, left, right, on, private)
      [] joinOp = "SemiJoinApply" ->
           ConstructSemiJoinApply(fr, st, tb, left, right, on, private)
      [] joinOp = "AntiJoin" -> ConstructAntiJoin(fr, st, tb, left, right, on, private)
      [] joinOp = "AntiJoinApply" ->
           ConstructAntiJoinApply(fr, st, tb, left, right, on, private)
      [] OTHER -> Panic(st, "unexpected join operator")

(***************************************************************************)
(* Rule notification and disable control (factory.go:169-201).             *)
(***************************************************************************)
NotifyOnMatchedRule(fr, matchedRule) == [fr EXCEPT !.matchedRule = matchedRule]

NotifyOnAppliedRule(fr, appliedRule) == [fr EXCEPT !.appliedRule = appliedRule]

\* A disable that clears the callback instead of installing the veto.
DisableOptimizationsClearsVeto(fr) == NotifyOnMatchedRule(fr, Nil)

DisableOptimizations(fr) == NotifyOnMatchedRule(fr, RejectAll)

\* DisableOptimizationsTemporarily up to the call of fn (factory.go:181-182):
\* the factory, and the local originalMatchedRule of the call's frame.
DisableOptimizationsTemporarilyEnter(fr) ==
    [f |-> DisableOptimizations(fr), originalMatchedRule |-> fr.matchedRule]

\* A return that forgets to restore the callback.
DisableOptimizationsTemporarilyReturnKeepsVeto(fr, originalMatchedRule) == fr

\* DisableOptimizationsTemporarily after fn has returned (factory.go:184).
DisableOptimizationsTemporarilyReturn(fr, originalMatchedRule) ==
    [fr EXCEPT !.matchedRule = originalMatchedRule]

(***************************************************************************)
(* Init and DetachMemo (factory.go:126-167).  A memo id of 0 is nil.       *)
(***************************************************************************)
\* FoldingControl: whether stable functions may be folded.
DisallowStableFolds == [allowStable |-> FALSE]
AllowStableFolds == [allowStable |-> TRUE]

\* &memo.Memo{}: the storage of a memo nobody holds any more.
NewMemo(ms) == CHOOSE id \in DOMAIN ms : ~ms[id].held

\* The factory and the memos after f.Init: the memo is reinitialized in
\* place, or allocated when the factory holds none.
\* An Init that resets the memo and the arguments' fields only.
FactoryInitRetainsFields(fr, ms, evalCtx, catalog) ==
    LET mem == IF fr.mem = 0 THEN NewMemo(ms) ELSE fr.mem
    IN [f |-> [fr EXCEPT !.mem = mem, !.evalCtx = evalCtx, !.catalog = catalog],
        mems |-> [ms EXCEPT ![mem] = BlankMemo]]

FactoryInit(fr, ms, evalCtx, catalog) ==
    LET mem == IF fr.mem = 0 THEN NewMemo(ms) ELSE fr.mem
    IN [f |-> [evalCtx |-> evalCtx, mem |-> mem,
               matchedRule |-> Nil, appliedRule |-> Nil,
               catalog |-> catalog,
               foldingControl |-> DisallowStableFolds,
               constructorStackDepth |-> 0,
               disabledRules |-> {}],
        mems |-> [ms EXCEPT ![mem] = BlankMemo]]

\* Memo.Detach drops the column statistics, which the model does not hold.
Detach(m) == m

\* A DetachMemo that leaves f.mem set, so that Init reinitializes that memo.
DetachMemoKeepsMem(fr, ms) ==
    LET m == fr.mem
        detached == [ms EXCEPT ![m] = Detach(@)]
        r == FactoryInit(fr, detached, fr.evalCtx, Nil)
    IN [f |-> r.f, mems |-> r.mems, memo |-> m]

DetachMemo(fr, ms) ==
    LET m == fr.mem
        detached == [ms EXCEPT ![m] = Detach(@)]
        r == FactoryInit([fr EXCEPT !.mem = 0], detached, fr.evalCtx, Nil)
    IN [f |-> r.f, mems |-> r.mems, memo |-> m]

(***************************************************************************)
(* CopyAndReplace (factory.go:265-287) and the traversal behind it.        *)
(***************************************************************************)
\* Memo.CopyNextRankFrom and Memo.SetRoot on memo dst.
CopyNextRankFrom(ms, dst, src) == [ms EXCEPT ![dst].nextRank = ms[src].nextRank]

SetRoot(ms, dst, to, props) == [ms EXCEPT ![dst].root = to, ![dst].rootProps = props]

\* The replace callbacks of the model: "copy" always delegates to
\* CopyAndReplaceDefault (CopyWithoutAssigningPlaceholders, factory.go:291-293);
\* "zeroScan" replaces every Scan by ConstructZeroValues() and delegates the rest.
ReplaceFuncs == {"copy", "zeroScan"}

RECURSIVE invokeReplace(_, _, _, _, _, _)
RECURSIVE ReplaceChildren(_, _, _, _, _, _, _)

ReplaceChildren(fr, st, tb, src, kids, replace, acc) ==
    IF kids = <<>> THEN [st |-> st, kids |-> acc]
    ELSE Bind(invokeReplace(fr, st, tb, src, Head(kids), replace), LAMBDA s1 :
             ReplaceChildren(fr, s1, tb, src, Tail(kids), replace,
                             Append(acc, s1.out)))

\* Factory.CopyAndReplaceDefault (generated): substitute each child, then
\* call the typed constructor of the same operator with the same private.
CopyAndReplaceDefault(fr, st, tb, src, ref, replace) ==
    IF IsSingleton(ref) THEN [st EXCEPT !.out = ref]
    ELSE LET e == st.mems[src].exprs[ref]
         IN Bind(ReplaceChildren(fr, st, tb, src, e.kids, replace, <<>>), LAMBDA r :
                IF r.st.panic # NoPanic THEN r.st
                ELSE IF e.op \in ScalarOps
                THEN ConstructScalar(fr, r.st, tb, Expr(e.op, r.kids, e.priv))
                ELSE ConstructRelational(fr, r.st, tb, Expr(e.op, r.kids, e.priv)))

\* A replaceFn that types the constant by the datum.
replaceFnPlaceholderByDatum(fr, st, tb, placeholder) ==
    LET r == EvalExpr(fr.evalCtx, placeholder.priv.id)
        s1 == Step(st, "eval", placeholder.priv.id)
    IN IF r.err # Nil THEN Panic(s1, r.err)
       ELSE ConstructConstVal(fr, s1, tb, r.d, ResolvedType(r.d))

\* A replaceFn that evaluates the value inside the constant's constructor.
replaceFnPlaceholderInsideConstructor(fr, st, tb, placeholder) ==
    LET r == EvalExpr(fr.evalCtx, placeholder.priv.id)
        s1 == Step([st EXCEPT !.depth = @ + 1], "eval", placeholder.priv.id)
    IN IF r.err # Nil THEN Panic(s1, r.err)
       ELSE ConstructConstVal(fr, [s1 EXCEPT !.depth = @ - 1], tb, r.d,
                              placeholder.priv.tag)

\* The Placeholder branch of replaceFn in AssignPlaceholders
\* (factory.go:319-325): evaluate the value, panic with the error if there
\* is one, construct the constant with the placeholder's static type.
replaceFnPlaceholder(fr, st, tb, placeholder) ==
    LET r == EvalExpr(fr.evalCtx, placeholder.priv.id)
        s1 == Step(st, "eval", placeholder.priv.id)
    IN IF r.err # Nil THEN Panic(s1, r.err)
       ELSE ConstructConstVal(fr, s1, tb, r.d, placeholder.priv.tag)

\* One invocation of the replace callback on a node of the source, and,
\* once it has returned, the reference it returned.
invokeReplace(fr, st, tb, src, ref, replace) ==
    IF st.panic # NoPanic THEN st
    ELSE Bind(IF replace = "copyScalar"
              THEN Step(st, "copyScalar", ref)
              ELSE Step([st EXCEPT !.calls = @ + 1], "replace", ref), LAMBDA s1 :
         Bind(IF replace = "zeroScan" /\ ~IsSingleton(ref)
                 /\ s1.mems[src].exprs[ref].op = "Scan"
              THEN ConstructZeroValues(fr, s1, tb)
              ELSE IF replace = "assign" /\ ~IsSingleton(ref)
                 /\ s1.mems[src].exprs[ref].op = "Placeholder"
              THEN replaceFnPlaceholder(fr, s1, tb, s1.mems[src].exprs[ref])
              ELSE CopyAndReplaceDefault(fr, s1, tb, src, ref, replace), LAMBDA s2 :
             IF s2.panic # NoPanic \/ replace = "copyScalar" THEN s2
             ELSE [s2 EXCEPT !.rlog = Append(@, [ref |-> ref, out |-> s2.out])]))

\* Factory.CopyWithoutAssigningPlaceholders (factory.go:291-293): the default
\* copy with itself as the callback, here the callback named "copyScalar".
CopyWithoutAssigningPlaceholders(fr, st, tb, src, ref) ==
    CopyAndReplaceDefault(fr, st, tb, src, ref, "copyScalar")

\* Metadata.CopyFrom(from, copyScalarFn) on the metadata of memo dst: the
\* identifiers are kept, and the scalar expression that the metadata holds
\* is copied by copyScalarFn, which constructs it with the factory.
MetadataCopyFrom(fr, st, tb, dst, src) ==
    LET computed == st.mems[src].md.computed
        s1 == [st EXCEPT !.mems[dst].md = [st.mems[src].md EXCEPT !.computed = 0]]
    IN IF computed = 0 THEN s1
       ELSE Bind(CopyWithoutAssigningPlaceholders(fr, s1, tb, src, computed),
                 LAMBDA s2 :
                     IF s2.panic # NoPanic THEN s2
                     ELSE [s2 EXCEPT !.mems[dst].md.computed = s2.out])

\* A copy that tests the destination only after it has copied the rank.
CopyAndReplaceChecksLate(fr, ms, tb, src, from, fromProps, replace) ==
    LET st == Enter(fr, ms)
        s1 == [st EXCEPT !.mems = CopyNextRankFrom(@, fr.mem, src)]
    IN IF ~IsEmpty(ms[fr.mem])
       THEN Panic(s1, "destination memo must be empty")
       ELSE LET s2 == MetadataCopyFrom(fr, s1, tb, fr.mem, src)
                s3 == invokeReplace(fr, s2, tb, src, from, replace)
            IN IF s3.panic # NoPanic THEN s3
               ELSE [s3 EXCEPT !.mems = SetRoot(@, fr.mem, s3.out, fromProps)]

\* A copy that copies the metadata from the destination to the source.
CopyAndReplaceWritesSource(fr, ms, tb, src, from, fromProps, replace) ==
    LET st == Enter(fr, ms)
    IN IF ~IsEmpty(ms[fr.mem])
       THEN Panic(st, "destination memo must be empty")
       ELSE LET s1 == [st EXCEPT !.mems = CopyNextRankFrom(@, fr.mem, src)]
                s2 == MetadataCopyFrom(fr, s1, tb, src, fr.mem)
                s3 == invokeReplace(fr, s2, tb, src, from, replace)
            IN IF s3.panic # NoPanic THEN s3
               ELSE [s3 EXCEPT !.mems = SetRoot(@, fr.mem, s3.out, fromProps)]

\* A copy that leaves the metadata of the destination blank.
CopyAndReplaceWithoutMetadata(fr, ms, tb, src, from, fromProps, replace) ==
    LET st == Enter(fr, ms)
    IN IF ~IsEmpty(ms[fr.mem])
       THEN Panic(st, "destination memo must be empty")
       ELSE LET s1 == [st EXCEPT !.mems = CopyNextRankFrom(@, fr.mem, src)]
                s3 == invokeReplace(fr, s1, tb, src, from, replace)
            IN IF s3.panic # NoPanic THEN s3
               ELSE [s3 EXCEPT !.mems = SetRoot(@, fr.mem, s3.out, fromProps)]

\* A copy that copies the metadata once the traversal is over.
CopyAndReplaceCopiesMetadataLast(fr, ms, tb, src, from, fromProps, replace) ==
    LET st == Enter(fr, ms)
    IN IF ~IsEmpty(ms[fr.mem])
       THEN Panic(st, "destination memo must be empty")
       ELSE LET s1 == Step([st EXCEPT !.mems = CopyNextRankFrom(@, fr.mem, src)],
                           "CopyNextRankFrom", src)
                s2 == invokeReplace(fr, s1, tb, src, from, replace)
                s3 == Step(MetadataCopyFrom(fr, s2, tb, fr.mem, src),
                           "CopyFrom", src)
            IN IF s2.panic # NoPanic THEN s2
               ELSE Step([s3 EXCEPT !.mems = SetRoot(@, fr.mem, s2.out, fromProps)],
                         "SetRoot", s2.out)

\* Factory.CopyAndReplace (factory.go:265-287).
CopyAndReplace(fr, ms, tb, src, from, fromProps, replace) ==
    IF ~IsEmpty(ms[fr.mem])
    THEN Panic(Enter(fr, ms), "destination memo must be empty")
    ELSE Bind(Step([Enter(fr, ms) EXCEPT !.mems = CopyNextRankFrom(@, fr.mem, src)],
                   "CopyNextRankFrom", src), LAMBDA s1 :
         Bind(Step(MetadataCopyFrom(fr, s1, tb, fr.mem, src), "CopyFrom", src),
              LAMBDA s2 :
         Bind(invokeReplace(fr, s2, tb, src, from, replace), LAMBDA s3 :
             IF s3.panic # NoPanic THEN s3
             ELSE Step([s3 EXCEPT !.mems = SetRoot(@, fr.mem, s3.out, fromProps)],
                       "SetRoot", s3.out))))

\* errorutil.ShouldCatch: an evaluation error is caught, nothing else is.
ShouldCatch(r) == r = EvalError

\* An AssignPlaceholders that recovers nothing.
AssignPlaceholdersWithoutRecover(fr, ms, tb, from) ==
    CopyAndReplace(fr, ms, tb, from, ms[from].root, ms[from].rootProps, "assign")

\* AssignPlaceholders (factory.go:300-331): the copy with replaceFn, and the
\* deferred recover that turns a caught panic into the returned error.
AssignPlaceholders(fr, ms, tb, from) ==
    Bind(CopyAndReplace(fr, ms, tb, from,
                        ms[from].root, ms[from].rootProps, "assign"), LAMBDA st :
        IF st.panic # NoPanic /\ ShouldCatch(st.panic)
        THEN [st EXCEPT !.err = st.panic, !.panic = NoPanic]
        ELSE st)

(***************************************************************************)
(* The state machine.                                                      *)
(***************************************************************************)
\* What is observed of a call: its name and arguments, the veto callback
\* installed when a constructing call started, and what the call did; for
\* the return of a temporary disable, the callback installed before it; for
\* Init and DetachMemo, whether the factory had its fields set before.
Observe(op, arg, st) ==
    [op |-> op, arg |-> arg, veto |-> f.matchedRule,
     mlog |-> st.mlog, alog |-> st.alog, hlog |-> st.hlog, ilog |-> st.ilog,
     rules |-> st.rules, trace |-> st.trace, rlog |-> st.rlog, err |-> st.err, reports |-> st.reports, calls |-> st.calls, out |-> st.out,
     before |-> Nil, dirty |-> FALSE]

NoArg ==
    [src |-> 0, from |-> 0, props |-> Nil, replace |-> Nil,
     e |-> Expr(Nil, <<>>, NoPrivate), q |-> <<>>,
     evalCtx |-> <<>>, catalog |-> Nil,
     d |-> Nil, t |-> Nil, col |-> 0, values |-> <<>>, colMap |-> <<>>]

Quiet(op, arg) == [Observe(op, arg, Enter(f, mems)) EXCEPT !.veto = Nil]

\* The factory after a call that ran constructors: a panic unwinds every
\* frame of the client's call stack.
Leave(op, arg, st) ==
    /\ f' = [f EXCEPT !.constructorStackDepth = st.depth]
    /\ mems' = st.mems
    /\ fatal' = st.panic
    /\ frames' = IF st.panic # NoPanic THEN <<>> ELSE frames
    /\ last' = Observe(op, arg, st)
    /\ UNCHANGED CrdbTestBuild

Usable == fatal = NoPanic
Below(m) == m.md.uniqueID < MaxCounter /\ m.nextRank <= MaxCounter
Room == Len(mems[f.mem].exprs) < MaxExprs

RelGroups(m) == {g \in 1..Len(m.exprs) : m.exprs[g].op \in RelationalOps}
ScalarRefs(m) ==
    {TrueSingleton, FalseSingleton}
        \cup {g \in 1..Len(m.exprs) : m.exprs[g].op \in ScalarOps}

\* The builder registers the table in the metadata, then constructs its Scan.
CallConstructScan ==
    /\ Usable /\ Room
    /\ LET e == Expr("Scan", <<>>, [tag |-> "t", cols |-> TableCols, id |-> 0])
           st == Enter(f, [mems EXCEPT ![f.mem].md.cols = @ \cup TableCols])
       IN Leave("Construct", [NoArg EXCEPT !.e = e],
                ConstructRelational(f, st, CrdbTestBuild, e))

CallConstructSelect ==
    /\ Usable /\ Room
    /\ \E input \in RelGroups(mems[f.mem]), filter \in ScalarRefs(mems[f.mem]) :
          LET e == Expr("Select", <<input, filter>>, NoPrivate)
          IN Leave("Construct", [NoArg EXCEPT !.e = e],
                   ConstructRelational(f, Enter(f, mems), CrdbTestBuild, e))

\* The unary constructors Limit, A and B.
CallConstructUnary ==
    /\ Usable /\ Room
    /\ \E op \in {"Limit", "A", "B"}, input \in RelGroups(mems[f.mem]) :
          LET e == Expr(op, <<input>>, NoPrivate)
          IN Leave("Construct", [NoArg EXCEPT !.e = e],
                   ConstructRelational(f, Enter(f, mems), CrdbTestBuild, e))

CallConstructConst ==
    /\ Usable /\ Room /\ Below(mems[f.mem])
    /\ LET e == Expr("Const", <<>>, [tag |-> "d", cols |-> {}, id |-> 0])
       IN Leave("Construct", [NoArg EXCEPT !.e = e],
                ConstructScalar(f, Enter(f, mems), CrdbTestBuild, e))

\* The builder gives the table of the metadata a computed column whose
\* expression it has constructed.
CallAddComputedCol ==
    /\ Usable /\ frames = <<>>
    /\ mems[f.mem].md.computed = 0
    /\ \E ref \in ScalarRefs(mems[f.mem]) :
          /\ mems' = [mems EXCEPT ![f.mem].md.computed = ref]
          /\ last' = Quiet("AddComputedCol", [NoArg EXCEPT !.from = ref])
    /\ UNCHANGED <<f, frames, fatal, CrdbTestBuild>>

CallConstructZeroValues ==
    /\ Usable /\ Room /\ Below(mems[f.mem])
    /\ Leave("ConstructZeroValues", NoArg,
             ConstructZeroValues(f, Enter(f, mems), CrdbTestBuild))

CallNotifyOnMatchedRule ==
    /\ Usable
    /\ \E cb \in ClientMatchedRuleFuncs \cup {Nil} :
          /\ f' = NotifyOnMatchedRule(f, cb)
          /\ last' = Quiet("NotifyOnMatchedRule", NoArg)
    /\ UNCHANGED <<mems, frames, fatal, CrdbTestBuild>>

CallNotifyOnAppliedRule ==
    /\ Usable
    /\ \E cb \in AppliedRuleFuncs \cup {Nil} :
          /\ f' = NotifyOnAppliedRule(f, cb)
          /\ last' = Quiet("NotifyOnAppliedRule", NoArg)
    /\ UNCHANGED <<mems, frames, fatal, CrdbTestBuild>>

CallDisableOptimizations ==
    /\ Usable
    /\ f' = DisableOptimizations(f)
    /\ last' = Quiet("DisableOptimizations", NoArg)
    /\ UNCHANGED <<mems, frames, fatal, CrdbTestBuild>>

\* A frame holds the call's local, and what an observer saw installed
\* before the call.
EnterDisableOptimizationsTemporarily ==
    /\ Usable /\ Len(frames) < MaxNesting
    /\ LET r == DisableOptimizationsTemporarilyEnter(f)
       IN /\ f' = r.f
          /\ frames' = Append(frames, [originalMatchedRule |-> r.originalMatchedRule,
                                       before |-> f.matchedRule])
    /\ last' = Quiet("DisableOptimizationsTemporarily", NoArg)
    /\ UNCHANGED <<mems, fatal, CrdbTestBuild>>

ReturnDisableOptimizationsTemporarily ==
    /\ Usable /\ frames # <<>>
    /\ f' = DisableOptimizationsTemporarilyReturn(
                f, frames[Len(frames)].originalMatchedRule)
    /\ frames' = SubSeq(frames, 1, Len(frames) - 1)
    /\ last' = [Quiet("return", NoArg) EXCEPT !.before = frames[Len(frames)].before]
    /\ UNCHANGED <<mems, fatal, CrdbTestBuild>>

\* The callbacks, the disabled rules and the folding of stable functions
\* are set and the memo is not empty.
Dirty ==
    /\ f.matchedRule # Nil /\ f.appliedRule # Nil
    /\ f.disabledRules # {}
    /\ f.foldingControl = AllowStableFolds
    /\ ~IsEmpty(mems[f.mem])

InitCall(evalCtx, catalog) ==
    /\ frames = <<>>
    /\ LET r == FactoryInit(f, mems, evalCtx, catalog)
       IN f' = r.f /\ mems' = r.mems
    /\ fatal' = NoPanic
    /\ last' = [Quiet("Init", [NoArg EXCEPT !.evalCtx = evalCtx,
                                            !.catalog = catalog])
                   EXCEPT !.dirty = /\ Dirty
                                    /\ f.constructorStackDepth # 0
                                    /\ f.evalCtx # evalCtx
                                    /\ f.catalog # catalog]
    /\ UNCHANGED <<frames, CrdbTestBuild>>

\* Init is called between queries, also to reuse the factory after a panic;
\* here with the evaluation context and the catalog of the query before.
CallInit == InitCall(f.evalCtx, f.catalog)

\* f.FoldingControl().AllowStableFolds().
CallAllowStableFolds ==
    /\ Usable
    /\ f' = [f EXCEPT !.foldingControl = AllowStableFolds]
    /\ last' = Quiet("AllowStableFolds", NoArg)
    /\ UNCHANGED <<mems, frames, fatal, CrdbTestBuild>>

\* The disabled-rule set is stored for the rules to consult.
DisabledRuleSets == {{}, {"AtoB"}}

CallSetDisabledRules ==
    /\ Usable
    /\ \E rules \in DisabledRuleSets :
          f' = [f EXCEPT !.disabledRules = rules]
    /\ last' = Quiet("SetDisabledRules", NoArg)
    /\ UNCHANGED <<mems, frames, fatal, CrdbTestBuild>>

\* The client drops the memo it detached before, then detaches this one.
CallDetachMemo ==
    /\ Usable /\ frames = <<>>
    /\ LET dropped == [id \in MemoIds |-> IF id = f.mem THEN mems[id] ELSE FreeMemo]
           r == DetachMemo(f, dropped)
       IN f' = r.f /\ mems' = r.mems
    /\ last' = Quiet("DetachMemo", NoArg)
    /\ UNCHANGED <<frames, fatal, CrdbTestBuild>>

\* The client keeps the memos it detached before.
CallDetachMemoKeeping ==
    /\ Usable /\ frames = <<>>
    /\ \E id \in MemoIds : ~mems[id].held
    /\ LET r == DetachMemo(f, mems)
       IN f' = r.f /\ mems' = r.mems
    /\ last' = [Quiet("DetachMemo", NoArg)
                   EXCEPT !.out = DetachMemo(f, mems).memo,
                          !.dirty = Dirty /\ f.catalog # Nil /\ mems[f.mem].root # 0]
    /\ UNCHANGED <<frames, fatal, CrdbTestBuild>>

\* CopyAndReplace from a memo whose scalar rank counter is at most maxRank.
CopyAndReplaceCall(maxRank) ==
    /\ Usable /\ frames = <<>>
    /\ \E src \in {id \in MemoIds : mems[id].held}, replace \in ReplaceFuncs :
       \E from \in RelGroups(mems[src]) :
          /\ mems[src].md.uniqueID < MaxCounter
          /\ mems[src].nextRank <= maxRank
          /\ Leave("CopyAndReplace",
                [NoArg EXCEPT !.src = src, !.from = from, !.props = "required",
                              !.replace = replace],
                CopyAndReplace(f, mems, CrdbTestBuild, src, from, "required", replace))

CallCopyAndReplace == CopyAndReplaceCall(MaxCounter)

CallCopyAndReplaceRanked == CopyAndReplaceCall(MaxRank)

(***************************************************************************)
(* Prepared statements: the builder constructs the tree of a query with    *)
(* placeholders and sets the root of the memo; the memo is detached, and   *)
(* a factory that holds the values of the placeholders in its evaluation   *)
(* context assigns them.                                                   *)
(***************************************************************************)
Queries ==
    {<<"Scan">>,
     <<"Select", <<"Scan">>, <<"P", 2>>>>,
     <<"Select", <<"Scan">>, <<"Eq", <<"P", 1>>, <<"P", 2>>>>>>,
     <<"Select", <<"Scan">>, <<"Eq", <<"P", 2>>, <<"P", 1>>>>>>,
     <<"Select", <<"Scan">>, <<"Eq", <<"P", 1>>, <<"P", 1>>>>>>}

RECURSIVE Build(_, _, _, _)
Build(fr, st, tb, q) ==
    CASE q[1] = "Scan" ->
           ConstructRelational(fr,
               [st EXCEPT !.mems[st.dst].md.cols = @ \cup TableCols], tb,
               Expr("Scan", <<>>, [tag |-> "t", cols |-> TableCols, id |-> 0]))
      [] q[1] = "P" ->
           ConstructScalar(fr, st, tb,
               Expr("Placeholder", <<>>,
                    [tag |-> PlaceholderType(q[2]), cols |-> {}, id |-> q[2]]))
      [] q[1] = "Eq" ->
           LET l == Build(fr, st, tb, q[2])
               r == Build(fr, l, tb, q[3])
           IN ConstructScalar(fr, r, tb, Expr("Eq", <<l.out, r.out>>, NoPrivate))
      [] q[1] = "Select" ->
           LET input == Build(fr, st, tb, q[2])
               filter == Build(fr, input, tb, q[3])
           IN ConstructRelational(fr, filter, tb,
                  Expr("Select", <<input.out, filter.out>>, NoPrivate))

CallBuild ==
    /\ Usable /\ frames = <<>>
    /\ IsEmpty(mems[f.mem])
    /\ \E q \in Queries :
          LET st == Build(f, Enter(f, mems), CrdbTestBuild, q)
          IN Leave("Build", [NoArg EXCEPT !.q = q],
                   [st EXCEPT !.mems = SetRoot(@, f.mem, st.out, "required")])

\* Init with any evaluation context and any catalog.
CallInitWith ==
    \E evalCtx \in EvalCtxs, catalog \in Catalogs \cup {Nil} :
        InitCall(evalCtx, catalog)

CallAssignPlaceholders ==
    /\ Usable /\ frames = <<>>
    /\ \E from \in {id \in MemoIds : mems[id].held /\ mems[id].root # 0} :
          /\ mems[from].md.uniqueID < MaxCounter
          /\ mems[from].nextRank <= MaxRank
          /\ Leave("AssignPlaceholders",
                   [NoArg EXCEPT !.src = from, !.from = mems[from].root,
                                 !.props = mems[from].rootProps, !.replace = "assign"],
                   AssignPlaceholders(f, mems, CrdbTestBuild, from))

(***************************************************************************)
(* The convenience methods (factory.go:394-509).                           *)
(***************************************************************************)
Cols == {1, 2, 3}

\* opt.ColMap: a function from columns to columns.
ColMaps == {<<>>, <<2, 3>>, (1 :> 2) @@ (2 :> 1), (3 :> 1)}

RECURSIVE DatumLists(_)
DatumLists(n) ==
    IF n = 0 THEN {<<>>}
    ELSE DatumLists(n - 1)
            \cup {Append(l, d) : l \in {l \in DatumLists(n - 1) : Len(l) = n - 1},
                                 d \in Datums}

JoinPrivates == {NoPrivate, [tag |-> "flags", cols |-> {}, id |-> 1]}

\* The memo holds no more than the top-level constructions put there.
RoomToRemap == Len(mems[f.mem].exprs) <= MaxExprs + 1

CallConstructConstVal ==
    /\ Usable /\ Room
    /\ \E d \in Datums, t \in Types :
          Leave("ConstructConstVal", [NoArg EXCEPT !.d = d, !.t = t],
                ConstructConstVal(f, Enter(f, mems), CrdbTestBuild, d, t))

CallConstructVariable ==
    /\ Usable /\ Room
    /\ \E col \in Cols :
          Leave("Construct",
                [NoArg EXCEPT !.e = Expr("Variable", <<>>,
                                         [tag |-> "var", cols |-> {}, id |-> col])],
                ConstructVariable(f, Enter(f, mems), CrdbTestBuild, col))

CallConstructEq ==
    /\ Usable /\ Len(mems[f.mem].exprs) <= MaxExprs
    /\ \E left, right \in ScalarRefs(mems[f.mem]) \ {TrueSingleton, FalseSingleton} :
          Leave("Construct",
                [NoArg EXCEPT !.e = Expr("Eq", <<left, right>>, NoPrivate)],
                ConstructEq(f, Enter(f, mems), CrdbTestBuild, left, right))

CallConstructConstFilter ==
    /\ Usable /\ Room
    /\ \E col \in Cols, values \in DatumLists(MaxValues) :
          Leave("ConstructConstFilter",
                [NoArg EXCEPT !.col = col, !.values = values],
                ConstructConstFilter(f, Enter(f, mems), CrdbTestBuild, col, values))

CallRemapCols ==
    /\ Usable /\ RoomToRemap
    /\ \E scalar \in ScalarRefs(mems[f.mem]), colMap \in ColMaps :
          Leave("RemapCols", [NoArg EXCEPT !.from = scalar, !.colMap = colMap],
                RemapCols(f, Enter(f, mems), CrdbTestBuild, scalar, colMap))

CallConstructJoin ==
    /\ Usable /\ Room
    /\ \E joinOp \in JoinOps \cup {"Select", "Scan"},
          left \in RelGroups(mems[f.mem]), right \in RelGroups(mems[f.mem]),
          on \in {TrueSingleton, FalseSingleton}, private \in JoinPrivates :
          Leave("ConstructJoin",
                [NoArg EXCEPT !.e = Expr(joinOp, <<left, right, on>>, private)],
                ConstructJoin(f, Enter(f, mems), CrdbTestBuild,
                              joinOp, left, right, on, private))

Init ==
    /\ f = [evalCtx |-> DefaultEvalCtx, mem |-> 1,
            matchedRule |-> Nil, appliedRule |-> Nil,
            catalog |-> DefaultCatalog,
            foldingControl |-> DisallowStableFolds,
            constructorStackDepth |-> 0, disabledRules |-> {}]
    /\ mems = [id \in MemoIds |-> IF id = 1 THEN BlankMemo ELSE FreeMemo]
    /\ frames = <<>>
    /\ fatal = NoPanic
    /\ CrdbTestBuild \in BOOLEAN
    /\ last = Quiet("Init", [NoArg EXCEPT !.evalCtx = DefaultEvalCtx,
                                          !.catalog = DefaultCatalog])

\* Building one memo under every use of the rule callbacks.
Next ==
    \/ CallConstructScan
    \/ CallConstructSelect
    \/ CallConstructUnary
    \/ CallConstructConst
    \/ CallConstructZeroValues
    \/ CallNotifyOnMatchedRule
    \/ CallNotifyOnAppliedRule
    \/ CallDisableOptimizations
    \/ EnterDisableOptimizationsTemporarily
    \/ ReturnDisableOptimizationsTemporarily
    \/ CallInit

\* Building, detaching and copying memos, with rules enabled or disabled,
\* outside any temporary disable.  No rule cycle is installed here, so the
\* depth guard and with it the kind of build play no part.
NextCopy ==
    \/ CallConstructScan
    \/ CallConstructSelect
    \/ CallConstructConst
    \/ CallConstructZeroValues
    \/ CallDisableOptimizations
    \/ CallInit
    \/ CallDetachMemo
    \/ CallCopyAndReplace

Spec == Init /\ [][Next]_vars

InitCopy == Init /\ CrdbTestBuild = FALSE

SpecCopy == InitCopy /\ [][NextCopy]_vars

\* Copying a memo whose metadata holds a scalar expression.
NextMeta ==
    \/ CallConstructScan
    \/ CallConstructSelect
    \/ CallConstructConst
    \/ CallAddComputedCol
    \/ CallInit
    \/ CallDetachMemo
    \/ CallCopyAndReplaceRanked

SpecMeta == InitCopy /\ [][NextMeta]_vars

\* Constructions inside a temporary disable, some of which panic.
NextUnwind ==
    \/ CallConstructScan
    \/ CallConstructJoin
    \/ CallNotifyOnMatchedRule
    \/ CallNotifyOnAppliedRule
    \/ CallSetDisabledRules
    \/ EnterDisableOptimizationsTemporarily
    \/ ReturnDisableOptimizationsTemporarily
    \/ CallInit

SpecUnwind == InitCopy /\ [][NextUnwind]_vars

\* Preparing statements and assigning their placeholders.
NextAssign ==
    \/ CallBuild
    \/ CallConstructScan
    \/ CallDisableOptimizations
    \/ CallInitWith
    \/ CallDetachMemo
    \/ CallAssignPlaceholders

SpecAssign == InitCopy /\ [][NextAssign]_vars

\* Constants, constant filters and joins on one memo.
NextHelpers ==
    \/ CallConstructScan
    \/ CallConstructConstVal
    \/ CallConstructConstFilter
    \/ CallConstructJoin
    \/ CallInit

SpecHelpers == InitCopy /\ [][NextHelpers]_vars

\* Remapping the columns of scalar expressions of one memo.
NextRemap ==
    \/ CallConstructVariable
    \/ CallConstructConstVal
    \/ CallConstructEq
    \/ CallRemapCols
    \/ CallInit

SpecRemap == InitCopy /\ [][NextRemap]_vars

\* Initializing a factory again, whatever its fields are set to, also
\* after a panic that left the depth counter above 0.
NextInit ==
    \/ CallConstructScan
    \/ CallConstructUnary
    \/ CallNotifyOnMatchedRule
    \/ CallNotifyOnAppliedRule
    \/ CallAllowStableFolds
    \/ CallSetDisabledRules
    \/ CallInitWith

SpecInit == Init /\ [][NextInit]_vars

\* Using a factory for one query after another: the memo is detached and
\* kept by the client, and the factory is used again.
NextReuse ==
    \/ CallBuild
    \/ CallDisableOptimizations
    \/ CallNotifyOnAppliedRule
    \/ CallAllowStableFolds
    \/ CallSetDisabledRules
    \/ CallInitWith
    \/ CallDetachMemoKeeping
    \/ CallCopyAndReplace

SpecReuse == InitCopy /\ [][NextReuse]_vars

(***************************************************************************)
(* Properties.                                                             *)
(***************************************************************************)
Constructing == last.op \in {"Construct", "ConstructZeroValues"}

Allows(veto, rule) == IF veto = Nil THEN TRUE ELSE MatchedRuleFunc(veto, rule)

\* C1: when DisableOptimizationsTemporarily returns, at any nesting level,
\* f.matchedRule is the callback that was installed immediately before that
\* call (nil if none, the reject-all veto of an enclosing temporary disable
\* included); and every rule match of a construction consults the callback
\* installed when the construction starts, so the restored one is consulted.
C1_RestoresPreviousCallback ==
    /\ last.op = "return" => f.matchedRule = last.before
    /\ Constructing =>
          /\ f.matchedRule = last.veto
          /\ \A i \in DOMAIN last.mlog : last.mlog[i].cb = last.veto

\* An inner call has returned inside an outer one that was entered with the
\* client's callback installed: the outer call's veto is active again.
C1_Witness ==
    /\ last.op = "return"
    /\ Len(frames) = 1
    /\ frames[1].before = "cbDeny"
    /\ last.before = RejectAll
    /\ f.matchedRule = RejectAll

\* C2: DisableOptimizations, and DisableOptimizationsTemporarily on entry to
\* fn, leave the reject-all veto installed, and a construction does not
\* change the veto; a construction that starts under the reject-all veto
\* invokes no other match callback, fires no applied notification, and
\* returns the node it was asked for, the finishing hook included.
C2_DisabledRulesApplyNothing ==
    /\ last.op \in {"DisableOptimizations", "DisableOptimizationsTemporarily"}
          => f.matchedRule = RejectAll
    /\ (Constructing /\ last.veto = RejectAll) =>
          /\ f.matchedRule = RejectAll
          /\ fatal = NoPanic
          /\ \A i \in DOMAIN last.mlog : last.mlog[i].cb = RejectAll
          /\ last.alog = <<>>
          /\ \A i \in DOMAIN last.hlog : last.hlog[i].out = last.hlog[i].in
          /\ Len(last.ilog) = 1
          /\ last.out = last.ilog[1].group
          /\ last.op = "Construct" => mems[f.mem].exprs[last.out] = last.arg.e

\* Inside fn, entered with a client callback installed, a zero-cardinality
\* leakproof Select was constructed and kept.
C2_Witness ==
    /\ frames # <<>>
    /\ frames[1].before = "cbAllow"
    /\ last.op = "Construct"
    /\ last.veto = RejectAll
    /\ last.arg.e.op = "Select"
    /\ \E i \in DOMAIN last.hlog :
          last.hlog[i].zero /\ last.hlog[i].leakproof /\ last.hlog[i].matched # <<>>

\* C3: for every call of onConstructRelational on a node that is not a Values
\* node, with no veto or a veto that allows the rule: a zero-cardinality
\* leakproof node is replaced by an empty Values node with exactly the
\* node's output columns; a zero-cardinality node that is not leakproof is
\* returned unchanged.
C3_ZeroCardinalityRule ==
    \A i \in DOMAIN last.hlog :
        LET h == last.hlog[i]
            m == mems[f.mem]
        IN /\ (h.op # "Values" /\ h.zero /\ h.leakproof
                 /\ Allows(h.veto, SimplifyZeroCardinalityGroup)) =>
                  /\ h.out # h.in
                  /\ m.exprs[h.out].op = "Values"
                  /\ m.exprs[h.out].kids = <<>>
                  /\ Relational(m, h.out).OutputCols = h.cols
                  /\ Relational(m, h.in).OutputCols = h.cols
           /\ (h.zero /\ ~h.leakproof) => h.out = h.in

\* A zero-cardinality leakproof Select over a Scan, with a veto that allows
\* the rule, became an empty Values node with the Scan's column.
C3_Witness ==
    \E i \in DOMAIN last.hlog :
        /\ last.hlog[i].op = "Select"
        /\ last.hlog[i].zero /\ last.hlog[i].leakproof
        /\ last.hlog[i].veto = "cbAllow"
        /\ last.hlog[i].cols = TableCols
        /\ mems[f.mem].exprs[last.hlog[i].out].op = "Values"

\* C4: onConstructRelational invokes the match callback only for a node that
\* is not a Values node, has zero cardinality and is leakproof, once, about
\* SimplifyZeroCardinalityGroup.  If the answer is false the node is kept and
\* nothing is notified; if it is true, or no callback is installed, the node
\* is replaced and the applied callback, if installed, is invoked once with
\* (SimplifyZeroCardinalityGroup, nil, the new Values node).  In every other
\* case the hook invokes neither callback.
C4_HookCallbacks ==
    \A i \in DOMAIN last.hlog :
        LET h == last.hlog[i]
            matches == h.op # "Values" /\ h.zero /\ h.leakproof
            query == [cb |-> h.veto, rule |-> SimplifyZeroCardinalityGroup]
            notice == [cb |-> h.notify, rule |-> SimplifyZeroCardinalityGroup,
                       source |-> Nil, target |-> h.out]
        IN /\ h.matched = IF matches /\ h.veto # Nil THEN <<query>> ELSE <<>>
           /\ (matches /\ ~Allows(h.veto, SimplifyZeroCardinalityGroup)) =>
                  h.out = h.in /\ h.applied = <<>>
           /\ (matches /\ Allows(h.veto, SimplifyZeroCardinalityGroup)) =>
                  /\ h.out # h.in
                  /\ mems[f.mem].exprs[h.out].op = "Values"
                  /\ h.applied = IF h.notify # Nil THEN <<notice>> ELSE <<>>
           /\ ~matches => h.out = h.in /\ h.applied = <<>>

\* The client's veto rejected the rule for a matching node while an applied
\* callback was installed.
C4_Witness ==
    \E i \in DOMAIN last.hlog :
        /\ last.hlog[i].op # "Values"
        /\ last.hlog[i].zero /\ last.hlog[i].leakproof
        /\ last.hlog[i].veto = "cbDeny"
        /\ last.hlog[i].notify = "cbApplied"
        /\ last.hlog[i].matched # <<>>
        /\ last.hlog[i].out = last.hlog[i].in

C6_DepthZeroBetweenCalls ==
    \/ f.constructorStackDepth = 0
    \/ CrdbTestBuild /\ fatal = "max depth exceeded"

\* The guard tripped in a production build, after rules were applied.
C6_Witness ==
    /\ ~CrdbTestBuild
    /\ last.op = "Construct"
    /\ last.reports > 0
    /\ Len(last.rules) = maxConstructorStackDepth
    /\ fatal = NoPanic
    /\ f.constructorStackDepth = 0

\* C7: with the rules A => B and B => A a top-level construction ends: every
\* rule it applies is applied with the depth counter at most the threshold,
\* none after the counter has exceeded it; in a test build the trip is
\* fatal, in a production build it is reported and the call returns an
\* interned node without an error.
C7_DepthGuardStopsRules ==
    Constructing =>
        LET tripped == last.reports > 0 \/ fatal = "max depth exceeded"
        IN /\ \A k \in DOMAIN last.rules :
                 last.rules[k].depth <= maxConstructorStackDepth
           /\ (tripped /\ CrdbTestBuild) => fatal = "max depth exceeded"
           /\ (tripped /\ ~CrdbTestBuild) =>
                 /\ fatal = NoPanic
                 /\ last.out \in 1..Len(mems[f.mem].exprs)

\* The part of C7 that the code satisfies: the rules A => B and B => A are
\* applied only with the counter at most the threshold.
DepthGuardStopsCycle ==
    Constructing =>
        LET tripped == last.reports > 0 \/ fatal = "max depth exceeded"
        IN /\ \A k \in DOMAIN last.rules :
                 last.rules[k].rule # SimplifyZeroCardinalityGroup
                     => last.rules[k].depth <= maxConstructorStackDepth
           /\ (tripped /\ CrdbTestBuild) => fatal = "max depth exceeded"
           /\ (tripped /\ ~CrdbTestBuild) =>
                 /\ fatal = NoPanic
                 /\ last.out \in 1..Len(mems[f.mem].exprs)

\* C8: a CopyAndReplace that starts with a destination memo that is not empty
\* panics with "destination memo must be empty", changes no memo (rank
\* counter, metadata, groups and root of the destination included) and
\* never invokes the replace callback.
C8_NonEmptyDestinationPanics ==
    [][(last'.op = "CopyAndReplace" /\ ~IsEmpty(mems[f.mem]))
          => /\ fatal' = "destination memo must be empty"
             /\ mems' = mems
             /\ last'.calls = 0]_vars

\* A copy from a detached memo into a memo that already held a scalar, so
\* that the rank counters of the two memos differed, has panicked.
C8_Witness ==
    /\ last.op = "CopyAndReplace"
    /\ fatal = "destination memo must be empty"
    /\ last.arg.src # f.mem
    /\ ~IsEmpty(mems[f.mem])
    /\ mems[f.mem].nextRank # mems[last.arg.src].nextRank

\* C9: CopyAndReplace leaves the source memo as it was (groups, metadata,
\* rank counter, root and required properties), whether it returns or
\* panics, and a construction changes no memo but the factory's own.
C9_SourceMemoUnchanged ==
    [][/\ last'.op = "CopyAndReplace"
            => mems'[last'.arg.src] = mems[last'.arg.src]
       /\ last'.op \in {"Construct", "ConstructZeroValues"}
            => \A id \in MemoIds \ {f.mem} : mems'[id] = mems[id]]_vars

\* A node was constructed in a memo that a copy had given its root, next to
\* the source memo of that copy.
C9_Witness ==
    /\ last.op = "Construct"
    /\ fatal = NoPanic
    /\ mems[f.mem].root # 0
    /\ Len(mems[f.mem].exprs) > 1
    /\ \E id \in MemoIds \ {f.mem} :
          mems[id].held /\ Len(mems[id].exprs) >= 1 /\ mems[id].md.cols # {}

\* The tree under a reference of a memo: operator, subtrees, private data.
RECURSIVE Tree(_, _)
Tree(m, ref) ==
    IF IsSingleton(ref)
    THEN [op |-> "Singleton", kids |-> <<>>,
          priv |-> [tag |-> "", cols |-> {}, id |-> ref]]
    ELSE LET e == m.exprs[ref]
         IN [op |-> e.op,
             kids |-> [i \in DOMAIN e.kids |-> Tree(m, e.kids[i])],
             priv |-> e.priv]

\* The groups of the tree under a reference of a memo.
RECURSIVE Nodes(_, _)
Nodes(m, ref) ==
    IF IsSingleton(ref) THEN {}
    ELSE {ref} \cup UNION {Nodes(m, m.exprs[ref].kids[i]) : i \in DOMAIN m.exprs[ref].kids}

\* Some rule that the veto allows matches the node.
Matches(m, ref, veto) ==
    LET e == m.exprs[ref]
    IN \/ RuleOf(e.op) # Nil /\ Allows(veto, RuleOf(e.op))
       \/ /\ e.op \in RelationalOps \ {"Values"}
          /\ IsZero(Relational(m, ref).Cardinality)
          /\ IsLeakproof(Relational(m, ref).VolatilitySet)
          /\ Allows(veto, SimplifyZeroCardinalityGroup)

\* A CopyAndReplace with the identity substitution has returned.
IdentityCopied ==
    /\ last.op = "CopyAndReplace"
    /\ last.arg.replace = "copy"
    /\ fatal = NoPanic

\* C10: after a CopyAndReplace with the identity substitution the tree under
\* the root of the destination equals the source tree in operators,
\* children and private data, and the metadata holds the same columns,
\* whatever the source tree.
C10_CopyFidelity ==
    IdentityCopied =>
        /\ Tree(mems[f.mem], mems[f.mem].root)
              = Tree(mems[last.arg.src], last.arg.from)
        /\ mems[f.mem].md.cols = mems[last.arg.src].md.cols

\* C10 as amended: the same, for a source tree no node of which is matched
\* by a rule that the destination factory's veto allows.
C10_CopyFidelityUnlessRenormalized ==
    (/\ IdentityCopied
     /\ \A n \in Nodes(mems[last.arg.src], last.arg.from) :
           ~Matches(mems[last.arg.src], n, last.veto))
        => /\ Tree(mems[f.mem], mems[f.mem].root)
                 = Tree(mems[last.arg.src], last.arg.from)
           /\ mems[f.mem].md = mems[last.arg.src].md
           /\ mems[f.mem].rootProps = last.arg.props

\* A zero-cardinality leakproof Select, kept in the source because rules
\* were disabled, was copied by a factory with rules disabled.
C10_Witness ==
    /\ IdentityCopied
    /\ last.veto = RejectAll
    /\ LET src == mems[last.arg.src]
       IN /\ src.exprs[last.arg.from].op = "Select"
          /\ IsZero(Relational(src, last.arg.from).Cardinality)
          /\ IsLeakproof(Relational(src, last.arg.from).VolatilitySet)
          /\ src.md.cols # {}
    /\ mems[f.mem].exprs[mems[f.mem].root].op = "Select"

\* An AssignPlaceholders has returned without an error.
Assigned ==
    /\ last.op = "AssignPlaceholders"
    /\ fatal = NoPanic
    /\ last.err = Nil

\* The reference the replace callback returned for a node of the source.
Replaced(ref) ==
    last.rlog[CHOOSE k \in DOMAIN last.rlog : last.rlog[k].ref = ref].out

\* The node that ConstructConstVal gives a datum of a static type.
IsConstVal(m, ref, d, t) ==
    CASE d = DNull ->
           /\ ~IsSingleton(ref)
           /\ m.exprs[ref] = Expr("Null", <<>>, [tag |-> t, cols |-> {}, id |-> 0])
      [] d = "true" -> ref = TrueSingleton
      [] d = "false" -> ref = FalseSingleton
      [] OTHER ->
           /\ ~IsSingleton(ref)
           /\ m.exprs[ref] =
                 Expr("Const", <<>>, [tag |-> t, cols |-> {}, id |-> 0, d |-> d])

\* C11: after AssignPlaceholders has returned without an error, no
\* Placeholder is reachable from the root of the destination; for every
\* Placeholder of the source the callback returned the Null, True, False or
\* Const node of the placeholder's static type that holds the value its
\* expression evaluates to; every other node was reconstructed with its
\* operator, its private data and the replacements of its children; and the
\* root is the replacement of the source's root.
C11_NoPlaceholderRemains ==
    Assigned =>
        LET src == mems[last.arg.src]
            dst == mems[f.mem]
        IN /\ \A n \in Nodes(dst, dst.root) : dst.exprs[n].op # "Placeholder"
           /\ \A n \in Nodes(src, src.root) :
                 \E k \in DOMAIN last.rlog : last.rlog[k].ref = n
           /\ \A k \in DOMAIN last.rlog :
                 LET ref == last.rlog[k].ref
                     out == last.rlog[k].out
                 IN IF IsSingleton(ref) THEN out = ref
                    ELSE IF src.exprs[ref].op = "Placeholder"
                    THEN IsConstVal(dst, out,
                                    f.evalCtx[src.exprs[ref].priv.id],
                                    src.exprs[ref].priv.tag)
                    ELSE \E i \in DOMAIN last.ilog :
                            last.ilog[i].expr =
                               Expr(src.exprs[ref].op,
                                    [j \in DOMAIN src.exprs[ref].kids |->
                                        Replaced(src.exprs[ref].kids[j])],
                                    src.exprs[ref].priv)
           /\ dst.root = Replaced(src.root)

\* A tree with the placeholders $1 and $2 was assigned 7 and NULL.
C11_Witness ==
    /\ Assigned
    /\ f.evalCtx = <<"7", DNull>>
    /\ \E n1, n2 \in Nodes(mems[last.arg.src], last.arg.from) :
          /\ mems[last.arg.src].exprs[n1] =
                Expr("Placeholder", <<>>, [tag |-> "int", cols |-> {}, id |-> 1])
          /\ mems[last.arg.src].exprs[n2] =
                Expr("Placeholder", <<>>, [tag |-> "bool", cols |-> {}, id |-> 2])
    /\ mems[f.mem].exprs[mems[f.mem].root].op = "Select"

\* The indexes of the placeholders of the source tree whose evaluation fails.
FailingPlaceholders ==
    LET src == mems[last.arg.src]
    IN {src.exprs[n].priv.id :
           n \in {n \in Nodes(src, last.arg.from) :
                     /\ src.exprs[n].op = "Placeholder"
                     /\ f.evalCtx[src.exprs[n].priv.id] = EvalError}}

\* C12: an AssignPlaceholders whose source tree has a placeholder that fails
\* to evaluate returns that error and does not panic, the failing evaluation
\* being the last step of the traversal and the only failing one, and the
\* root of the destination memo is not set; it returns an error in no other
\* case; a panic that is not an evaluation error (the destination memo was
\* not empty) is not converted and stays fatal.
C12_EvaluationFailureReturned ==
    last.op = "AssignPlaceholders" =>
        LET dst == mems[f.mem]
            n == Len(last.trace)
            failed == {k \in DOMAIN last.trace :
                          /\ last.trace[k].ev = "eval"
                          /\ last.trace[k].ref \in FailingPlaceholders}
        IN /\ fatal \in {NoPanic, "destination memo must be empty"}
           /\ fatal # NoPanic => last.err = Nil /\ last.trace = <<>>
           /\ (fatal = NoPanic /\ FailingPlaceholders # {}) =>
                 /\ last.err = EvalError
                 /\ failed = {n}
                 /\ f.constructorStackDepth = 0
           /\ (fatal = NoPanic /\ FailingPlaceholders = {}) =>
                 last.err = Nil /\ dst.root # 0
           /\ last.err # Nil =>
                 /\ dst.root = 0 /\ dst.rootProps = Nil
                 /\ \A k \in DOMAIN last.trace : last.trace[k].ev # "SetRoot"

\* The evaluation of $2 failed after $1 had been replaced by a constant in
\* the destination memo.
C12_Witness ==
    /\ last.op = "AssignPlaceholders"
    /\ last.err = EvalError
    /\ fatal = NoPanic
    /\ f.evalCtx = <<"5", EvalError>>
    /\ \E k \in DOMAIN last.trace :
          last.trace[k].ev = "eval" /\ last.trace[k].ref = 1
    /\ \E g \in 1..Len(mems[f.mem].exprs) : mems[f.mem].exprs[g].op = "Const"
    /\ mems[f.mem].root = 0

\* C13: whatever the factory held, after Init(evalCtx, catalog) both
\* callbacks are nil, the disabled-rule set is empty, the depth counter is
\* 0, stable folds are disallowed, evalCtx and catalog are the arguments,
\* and the memo is the memo the factory had, now empty; no other memo is
\* touched.
C13_InitLeaksNothing ==
    [][last'.op = "Init"
          => /\ f' = [evalCtx |-> last'.arg.evalCtx,
                      mem |-> f.mem,
                      matchedRule |-> Nil,
                      appliedRule |-> Nil,
                      catalog |-> last'.arg.catalog,
                      foldingControl |-> DisallowStableFolds,
                      constructorStackDepth |-> 0,
                      disabledRules |-> {}]
             /\ IsEmpty(mems'[f.mem])
             /\ mems'[f.mem] = BlankMemo
             /\ \A id \in MemoIds \ {f.mem} : mems'[id] = mems[id]]_vars

\* Init was called with another context and another catalog on a factory
\* that had both callbacks, disabled rules and stable folds set, a memo that
\* was not empty and, after a panic, a depth counter above 0.
C13_Witness ==
    /\ last.op = "Init"
    /\ last.dirty
    /\ f.evalCtx = last.arg.evalCtx /\ f.evalCtx # DefaultEvalCtx
    /\ f.catalog = "cat2"
    /\ f.matchedRule = Nil

\* C14: DetachMemo returns the memo the factory was building, unchanged, and
\* leaves the factory with another memo, which is empty, with nil callbacks,
\* no disabled rule, stable folds disallowed, a depth counter of 0, a nil
\* catalog and the evaluation context it had; and no call on the factory
\* (a construction, CopyAndReplace, Init, another DetachMemo) changes a memo
\* that was detached before.
C14_DetachedMemoIndependent ==
    [][/\ last'.op = "DetachMemo"
            => /\ last'.out = f.mem
               /\ mems'[f.mem] = mems[f.mem]
               /\ f'.mem # f.mem
               /\ mems'[f'.mem] = BlankMemo
               /\ f' = [evalCtx |-> f.evalCtx,
                        mem |-> f'.mem,
                        matchedRule |-> Nil,
                        appliedRule |-> Nil,
                        catalog |-> Nil,
                        foldingControl |-> DisallowStableFolds,
                        constructorStackDepth |-> 0,
                        disabledRules |-> {}]
       /\ \A id \in MemoIds \ {f.mem} :
             mems[id].held => mems'[id] = mems[id]]_vars

\* A second memo, with its root set, was detached from a factory that had
\* its callbacks, disabled rules, stable folds and catalog set, while the
\* client held the memo detached first.
C14_Witness ==
    /\ last.op = "DetachMemo"
    /\ last.dirty
    /\ f.catalog = Nil /\ f.matchedRule = Nil
    /\ mems[last.out].root # 0
    /\ \E id \in MemoIds \ {f.mem, last.out} :
          mems[id].held /\ mems[id].root # 0
    /\ IsEmpty(mems[f.mem])

\* C15: ConstructConstVal(d, t) always returns: for the null datum the Null
\* node of type t, also when t is the boolean type; for a boolean datum the
\* True or the False singleton, constructing nothing in the memo; for any
\* other datum the Const node of that datum with type t.
C15_ConstValCanonical ==
    last.op = "ConstructConstVal" =>
        /\ fatal = NoPanic
        /\ IsConstVal(mems[f.mem], last.out, last.arg.d, last.arg.t)
        /\ last.arg.d \in DBools => last.ilog = <<>>
        /\ last.arg.d \notin DBools =>
              /\ Len(last.ilog) = 1
              /\ last.ilog[1].group = last.out

\* The null datum was given the boolean type.
C15_Witness ==
    /\ last.op = "ConstructConstVal"
    /\ last.arg.d = DNull /\ last.arg.t = "bool"
    /\ last.out > 0
    /\ mems[f.mem].exprs[last.out].op = "Null"

\* The trees of a constant, of a variable reference and of an operator.
ConstValTree(d, t) ==
    CASE d = DNull ->
           [op |-> "Null", kids |-> <<>>, priv |-> [tag |-> t, cols |-> {}, id |-> 0]]
      [] d \in DBools ->
           [op |-> "Singleton", kids |-> <<>>,
            priv |-> [tag |-> "", cols |-> {},
                      id |-> IF d = "true" THEN TrueSingleton ELSE FalseSingleton]]
      [] OTHER ->
           [op |-> "Const", kids |-> <<>>,
            priv |-> [tag |-> t, cols |-> {}, id |-> 0, d |-> d]]

VariableTree(col) ==
    [op |-> "Variable", kids |-> <<>>, priv |-> [tag |-> "var", cols |-> {}, id |-> col]]

OpTree(op, kids) == [op |-> op, kids |-> kids, priv |-> NoPrivate]

\* C16: for a list of one value ConstructConstFilter(col, values) returns
\* the filter item of col = value; for a longer list the filter item of
\* col IN tuple, the tuple holding the values in the given order and, as its
\* element types, their resolved types in that order; every value is the
\* constant that ConstructConstVal gives it with its resolved type.
C16_ConstFilterShape ==
    (last.op = "ConstructConstFilter" /\ Len(last.arg.values) >= 1) =>
        LET values == last.arg.values
            elems == [i \in DOMAIN values |->
                         ConstValTree(values[i], ResolvedType(values[i]))]
            types == [i \in DOMAIN values |-> ResolvedType(values[i])]
            tuple == [op |-> "Tuple", kids |-> elems,
                      priv |-> [tag |-> "tuple", cols |-> {}, id |-> 0,
                                types |-> types]]
            var == VariableTree(last.arg.col)
        IN /\ fatal = NoPanic
           /\ Tree(mems[f.mem], last.out) =
                 IF Len(values) = 1
                 THEN OpTree("FiltersItem", <<OpTree("Eq", <<var, elems[1]>>)>>)
                 ELSE OpTree("FiltersItem", <<OpTree("In", <<var, tuple>>)>>)

\* A filter was built of an integer and the null datum, in that order.
C16_Witness ==
    /\ last.op = "ConstructConstFilter"
    /\ last.arg.values = <<"5", DNull>>
    /\ last.arg.col = 2
    /\ fatal = NoPanic
    /\ mems[f.mem].exprs[last.out].op = "FiltersItem"
    /\ \E g \in 1..Len(mems[f.mem].exprs) :
          /\ mems[f.mem].exprs[g].op = "Tuple"
          /\ mems[f.mem].exprs[g].priv.types = <<"int", "unknown">>

\* A tree in which every variable reference to a key of the map refers to
\* the column the map gives that key.
RECURSIVE RemapTree(_, _)
RemapTree(t, colMap) ==
    IF t.op = "Variable"
    THEN IF t.priv.id \in DOMAIN colMap
         THEN [t EXCEPT !.priv.id = colMap[t.priv.id]]
         ELSE t
    ELSE [t EXCEPT !.kids = [i \in DOMAIN t.kids |-> RemapTree(t.kids[i], colMap)]]

\* The columns that the variable references of a tree refer to.
RECURSIVE TreeCols(_)
TreeCols(t) ==
    IF t.op = "Variable" THEN {t.priv.id}
    ELSE UNION {TreeCols(t.kids[i]) : i \in DOMAIN t.kids}

\* C17: RemapCols(scalar, colMap) returns an expression of the shape of
\* scalar in which a variable reference to a key c of colMap refers to
\* colMap[c], once and for all references at the same time, and every other
\* node is as it was; a scalar without a reference to a key is returned
\* itself.
C17_RemapColsOnce ==
    last.op = "RemapCols" =>
        LET m == mems[f.mem]
            before == Tree(m, last.arg.from)
        IN /\ fatal = NoPanic
           /\ Tree(m, last.out) = RemapTree(before, last.arg.colMap)
           /\ TreeCols(before) \cap DOMAIN last.arg.colMap = {}
                 => last.out = last.arg.from

\* The comparison of column 1 with column 2 was remapped by {1->2, 2->3}.
C17_Witness ==
    /\ last.op = "RemapCols"
    /\ last.arg.colMap = <<2, 3>>
    /\ ~IsSingleton(last.arg.from)
    /\ Tree(mems[f.mem], last.arg.from)
          = OpTree("Eq", <<VariableTree(1), VariableTree(2)>>)
    /\ Tree(mems[f.mem], last.out)
          = OpTree("Eq", <<VariableTree(2), VariableTree(3)>>)

\* C18: for each of the ten join operators ConstructJoin hands the memo the
\* join of that operator over the given left, right, on and private and
\* returns what the finishing hook returns for it; for any other operator
\* it panics with "unexpected join operator" and leaves every memo as it
\* was.
C18_JoinDispatch ==
    [][last'.op = "ConstructJoin"
          => IF last'.arg.e.op \in JoinOps
             THEN /\ fatal' = NoPanic
                  /\ Len(last'.ilog) >= 1
                  /\ last'.ilog[1].expr = last'.arg.e
                  /\ \E k \in DOMAIN last'.hlog :
                        /\ last'.hlog[k].in = last'.ilog[1].group
                        /\ last'.hlog[k].out = last'.out
             ELSE /\ fatal' = "unexpected join operator"
                  /\ last'.ilog = <<>>
                  /\ mems' = mems]_vars

\* A right join with private data was constructed.
C18_Witness ==
    /\ last.op = "ConstructJoin"
    /\ last.arg.e.op = "RightJoin"
    /\ last.arg.e.priv # NoPrivate
    /\ fatal = NoPanic
    /\ mems[f.mem].exprs[last.out] = last.arg.e

\* C19: a CopyAndReplace that returns has first seeded the rank counter of
\* the destination from the source, then copied the metadata of the source,
\* and only then called replace, first on the source root, or constructed
\* any node in the destination; setting the root is its last step and happens once, to what
\* replace returned for the source root, with the properties it was given.
C19_CopyStepOrder ==
    (last.op = "CopyAndReplace" /\ fatal = NoPanic) =>
        LET tr == last.trace
            n == Len(tr)
            rl == last.rlog
        IN /\ n >= 4
           /\ tr[1] = [ev |-> "CopyNextRankFrom", ref |-> last.arg.src]
           /\ tr[2] = [ev |-> "CopyFrom", ref |-> last.arg.src]
           /\ tr[3] = [ev |-> "replace", ref |-> last.arg.from]
           /\ \A i \in 3..(n - 1) : tr[i].ev \in {"replace", "memoize", "eval"}
           /\ rl # <<>>
           /\ rl[Len(rl)].ref = last.arg.from
           /\ \A i \in 1..(Len(rl) - 1) : rl[i].ref # last.arg.from
           /\ tr[n] = [ev |-> "SetRoot", ref |-> rl[Len(rl)].out]
           /\ mems[f.mem].root = rl[Len(rl)].out
           /\ mems[f.mem].rootProps = last.arg.props
           /\ mems[f.mem].nextRank >= mems[last.arg.src].nextRank

\* C19 (amended): a CopyAndReplace that returns has first seeded the rank
\* counter of the destination from the source, then copied the metadata of
\* the source, and only when that copy is complete called replace, first
\* on the source root; before it is complete the only nodes constructed in
\* the destination are the copies of the scalar expression the metadata
\* holds, made by CopyWithoutAssigningPlaceholders.  Setting the root is
\* the last step and happens once, to what replace returned for the source
\* root, with the properties given.
C19_CopyStepOrderAfterMetadata ==
    (last.op = "CopyAndReplace" /\ fatal = NoPanic) =>
        LET tr == last.trace
            n == Len(tr)
            rl == last.rlog
            src == mems[last.arg.src]
            done == {i \in 1..n : tr[i].ev = "CopyFrom"}
            k == CHOOSE i \in done : TRUE
        IN /\ tr[1] = [ev |-> "CopyNextRankFrom", ref |-> last.arg.src]
           /\ Cardinality(done) = 1
           /\ \A i \in 2..(k - 1) : tr[i].ev \in {"copyScalar", "memoize"}
           /\ k > 2 => src.md.computed > 0
           /\ src.md.computed # 0 =>
                 Tree(mems[f.mem], mems[f.mem].md.computed)
                    = Tree(src, src.md.computed)
           /\ n >= k + 2
           /\ tr[k + 1] = [ev |-> "replace", ref |-> last.arg.from]
           /\ \A i \in (k + 1)..(n - 1) : tr[i].ev \in {"replace", "memoize", "eval"}
           /\ rl # <<>>
           /\ rl[Len(rl)].ref = last.arg.from
           /\ \A i \in 1..(Len(rl) - 1) : rl[i].ref # last.arg.from
           /\ tr[n] = [ev |-> "SetRoot", ref |-> rl[Len(rl)].out]
           /\ mems[f.mem].root = rl[Len(rl)].out
           /\ mems[f.mem].rootProps = last.arg.props
           /\ mems[f.mem].nextRank >= src.nextRank

\* A memo whose metadata holds a constant was copied: the constant was
\* constructed in the destination during the copy of the metadata, the
\* tree after it, and the root was set.
C19_Witness ==
    /\ last.op = "CopyAndReplace" /\ fatal = NoPanic
    /\ mems[last.arg.src].md.computed > 0
    /\ last.trace[2].ev = "memoize"
    /\ last.trace[3].ev = "CopyFrom"
    /\ \E i \in 5..Len(last.trace) : last.trace[i].ev = "memoize"
    /\ mems[f.mem].root # 0
    /\ mems[f.mem].rootProps = "required"

\* C20: whenever control leaves DisableOptimizationsTemporarily, by the
\* return of fn or by a panic of fn that unwinds it, the veto callback that
\* was installed before the call is installed again, whatever fn installed,
\* and the applied-rule callback and the set of disabled rules are left as
\* they were.
C20_RestoredOnEveryExit ==
    [][Len(frames') < Len(frames)
          => /\ f'.matchedRule = frames[Len(frames') + 1].before
             /\ f'.appliedRule = f.appliedRule
             /\ f'.disabledRules = f.disabledRules]_vars

\* The part of C20 that holds: it holds of every return of fn.
RestoredOnReturn ==
    [][(Len(frames') < Len(frames) /\ fatal' = NoPanic)
          => /\ f'.matchedRule = frames[Len(frames') + 1].before
             /\ f'.appliedRule = f.appliedRule
             /\ f'.disabledRules = f.disabledRules]_vars

\* fn panicked in a call entered with no veto installed, and the veto that
\* rejects every rule is still installed.
UnwoundWithRejectAll ==
    /\ fatal = "unexpected join operator"
    /\ frames = <<>>
    /\ f.matchedRule = RejectAll

\* C21: when AssignPlaceholders returns an evaluation error, the failing
\* evaluation was its last step, every constructor that was entered before
\* it has returned (each relational node interned has been through the
\* finishing hook), and f.constructorStackDepth is 0.
C21_DepthZeroAfterEvaluationError ==
    (last.op = "AssignPlaceholders" /\ last.err # Nil) =>
        /\ fatal = NoPanic
        /\ last.err = EvalError
        /\ last.trace # <<>>
        /\ last.trace[Len(last.trace)].ev = "eval"
        /\ \A i \in DOMAIN last.ilog :
              last.ilog[i].expr.op \in RelationalOps =>
                 \E k \in DOMAIN last.hlog : last.hlog[k].in = last.ilog[i].group
        /\ last.reports = 0
        /\ f.constructorStackDepth = 0

\* The second placeholder of a comparison failed after the Scan and the
\* constant of the first placeholder had been constructed.
C21_Witness ==
    /\ last.op = "AssignPlaceholders"
    /\ last.err = EvalError
    /\ \E i \in DOMAIN last.ilog : last.ilog[i].expr.op = "Scan"
    /\ \E i \in DOMAIN last.ilog : last.ilog[i].expr.op = "Const"
    /\ f.constructorStackDepth = 0

\* The hook applied, after the call, to a node of the factory's memo.
HookAgain(ref) ==
    onConstructRelational(f, Enter(f, mems), CrdbTestBuild, ref)

\* C22: the finishing hook returns a Values node as it is, with no veto
\* query and no notification; the node by which the zero-cardinality rule
\* replaces another is a Values node that went through the hook in this
\* way, and the hook applied again to that result returns it, asks and
\* notifies nobody and constructs nothing; and a construction of one
\* relational operator fires the rule at most once.
C22_ZeroCardinalityRuleOnce ==
    (Constructing /\ fatal = NoPanic) =>
        LET m == mems[f.mem]
            fired == {i \in DOMAIN last.rules :
                         last.rules[i].rule = SimplifyZeroCardinalityGroup}
        IN /\ \A i \in DOMAIN last.hlog :
                 LET h == last.hlog[i]
                 IN /\ h.op = "Values" =>
                          h.out = h.in /\ h.matched = <<>> /\ h.applied = <<>>
                    /\ h.out # h.in =>
                          /\ m.exprs[h.out].op = "Values"
                          /\ \E k \in 1..(i - 1) :
                                /\ last.hlog[k].in = h.out
                                /\ last.hlog[k].out = h.out
                                /\ last.hlog[k].matched = <<>>
                                /\ last.hlog[k].applied = <<>>
                          /\ HookAgain(h.out).out = h.out
                          /\ HookAgain(h.out).mlog = <<>>
                          /\ HookAgain(h.out).alog = <<>>
                          /\ HookAgain(h.out).mems = mems
           /\ Cardinality(fired) <= 1
           /\ Cardinality({i \in DOMAIN last.hlog :
                              last.hlog[i].out # last.hlog[i].in}) = Cardinality(fired)

\* A zero-cardinality Select was replaced by an empty Values node, with a
\* veto installed that allows the rule and was asked once.
C22_Witness ==
    /\ Constructing /\ fatal = NoPanic
    /\ Len(last.hlog) = 2
    /\ last.hlog[1].op = "Values"
    /\ last.hlog[2].op = "Select"
    /\ last.hlog[2].out = last.hlog[1].in
    /\ last.hlog[2].veto = "cbAllow"
    /\ Len(last.mlog) = 1
    /\ last.out = last.hlog[2].out

====
